---- MODULE Spec2Model ----
\* Submission reliability pipeline of the public work-request application:
\* the public submit handler (POST /api/v1/public/submissions), the retry
\* batch handler (POST /api/v1/internal/retry-submissions) that the cron job of
\* server.ts invokes every two minutes without awaiting the previous run, and
\* the persistent rows both handlers share; and, each followed on its own, the
\* CMP client with its token manager (lib/cmp-client) and the rate limiter
\* (lib/security) that the handlers call, the form engine and the conditional
\* logic of the guest's form (lib/form-engine, components/public), and the
\* token manager and the token bucket of the CMP client under several callers.
\*
\* Every await of a handler is a separate step, so that requests interleave
\* exactly where the event loop lets them.  Times are milliseconds, as in the
\* source.
EXTENDS Integers, Sequences, FiniteSets, TLC

\* ------------------------------------------------------------------ bounds
\* Number of guest submit requests over the whole run.
MaxSubmits == 2
\* Largest number of files one submit carries.
MaxFiles == 1
\* Number of times a cron firing finds the previous batch still running.
MaxOverlaps == 1
\* The remote system's per-submission work-request count saturates here.
MaxRemote == 2

\* Retry batch invocations that can be in flight at once (the cron callback
\* fires the next invocation whether or not the previous one has returned).
Passes == {"p1", "p2"}

\* ------------------------------------------------------- program constants
\* retry-submissions route: const MAX_RETRIES = 5
MAX_RETRIES == 5

\* const RETRY_BACKOFF_MS = [1m, 5m, 15m, 1h, 4h]; the source indexes it from
\* 0, a TLA+ sequence from 1: see Backoff.
RETRY_BACKOFF_MS == <<60000, 300000, 900000, 3600000, 14400000>>

\* RETRY_BACKOFF_MS[k] with the source's 0-based index.
Backoff(k) == RETRY_BACKOFF_MS[k + 1]

\* SQL NULL / JavaScript null for the nullable columns.
NULL == -1

\* ------------------------------------------------------------ shared data
\* The FormUrl rows with their form and its credential, as the admin pages
\* created them.  expiresAt is a timestamp or NULL.
ExpiresAtMs == 30000

\* How far the clock runs: one minute (the first retry falls due), and a day.
ShortHorizonMs == 60000
LongHorizonMs == 86400000

FormUrls ==
  [ one    |-> [accessType |-> "ONE_TIME_URL", isActive |-> TRUE,
               credentialActive |-> TRUE,  expiresAt |-> NULL],
    open   |-> [accessType |-> "OPEN_URL",     isActive |-> TRUE,
               credentialActive |-> TRUE,  expiresAt |-> NULL],
    nocred |-> [accessType |-> "OPEN_URL",     isActive |-> TRUE,
               credentialActive |-> FALSE, expiresAt |-> NULL],
    timed  |-> [accessType |-> "OPEN_URL",     isActive |-> TRUE,
               credentialActive |-> TRUE,  expiresAt |-> ExpiresAtMs],
    off    |-> [accessType |-> "OPEN_URL",     isActive |-> FALSE,
               credentialActive |-> TRUE,  expiresAt |-> NULL] ]

Tokens == DOMAIN FormUrls

\* Tokens a guest may send: the known ones and one no FormUrl row has.
TokenInputs == Tokens \cup {"unknown"}

\* Every form snapshot holds one required text field, "title".  A submitted
\* value is a string, written as a sequence of characters.
TitleInputs == { <<>>, <<" ">>, <<"a">> }

Requests == 1..MaxSubmits

VARIABLES
  now,          \* the wall clock, Date.now()
  isUsed,       \* FormUrl.isUsed per token
  submissions,  \* the Submission table, a sequence indexed by row id
  sreq,         \* per submit request: its position and locals
  pass,         \* per retry-batch invocation: its position and locals
  created,      \* remote system: work requests created per Submission id
  overlaps,     \* batch invocations started while another one was running
  cmp,          \* a handler's CmpClient with its CmpTokenManager
  limiter,      \* a RateLimiter: its entries and what it answered
  fetched,      \* the last answer of the public form-fetch endpoint
  engine,       \* the form engine: the call in progress and its result
  dynamicForm,  \* the DynamicForm on the guest's page: its state and its hook
  logic,        \* a call of computeConditionalLogic: its arguments and result
  callers,      \* one CmpTokenManager and the requests in flight that share it
  bucket        \* a CmpRateLimiter and the acquire calls sleeping in it

\* What a guest's browser does and sees besides submitting.
guest == <<fetched, engine, dynamicForm, logic>>

\* The client classes under several callers at once.
concurrent == <<callers, bucket>>

\* The state of the libraries the handlers call and of the guest's side, each
\* followed on its own.
library == <<cmp, limiter, guest, concurrent>>

\* The state of the submission pipeline.
pipeline == <<isUsed, submissions, sreq, pass, created, overlaps>>

vars ==
  <<now, isUsed, submissions, sreq, pass, created, overlaps, cmp, limiter,
    fetched, engine, dynamicForm, logic, callers, bucket>>

\* ---------------------------------------------------------- pure helpers
\* String.prototype.trim on a character sequence.
RECURSIVE TrimLeft(_)
TrimLeft(s) == IF s # <<>> /\ Head(s) = " " THEN TrimLeft(Tail(s)) ELSE s

RECURSIVE TrimRight(_)
TrimRight(s) ==
  IF s # <<>> /\ s[Len(s)] = " " THEN TrimRight(SubSeq(s, 1, Len(s) - 1)) ELSE s

Trim(s) == TrimRight(TrimLeft(s))

\* ------------------------------------------------------------- form engine
\* A JavaScript value, as the form state holds it and as JSON carries it: t is
\* its kind, s the characters of a string, n the number, a the elements of an
\* array, o the entries of an object as <<key, value>> pairs.
JsValue(t, s, n, a, o) == [t |-> t, s |-> s, n |-> n, a |-> a, o |-> o]

JsUndefined == JsValue("undefined", <<>>, 0, <<>>, <<>>)
JsNull == JsValue("null", <<>>, 0, <<>>, <<>>)
JsString(s) == JsValue("string", s, 0, <<>>, <<>>)
JsNumber(n) == JsValue("number", <<>>, n, <<>>, <<>>)
JsArray(a) == JsValue("array", <<>>, 0, a, <<>>)
JsObject(o) == JsValue("object", <<>>, 0, <<>>, o)

\* typeof value
TypeOf(v) == IF v.t \in {"string", "undefined", "number"} THEN v.t ELSE "object"

\* String(n) for an integer n.
DigitChars == <<"0", "1", "2", "3", "4", "5", "6", "7", "8", "9">>

RECURSIVE NumberToString(_)
NumberToString(n) ==
  IF n < 0 THEN <<"-">> \o NumberToString(-n)
  ELSE IF n < 10 THEN <<DigitChars[n + 1]>>
  ELSE NumberToString(n \div 10) \o <<DigitChars[(n % 10) + 1]>>

\* String(value); an array is its elements joined with commas, null and
\* undefined elements giving nothing.
RECURSIVE StringOf(_)
StringOf(v) ==
  CASE v.t = "string" -> v.s
    [] v.t = "number" -> NumberToString(v.n)
    [] v.t = "undefined" -> <<"u", "n", "d", "e", "f", "i", "n", "e", "d">>
    [] v.t = "null" -> <<"n", "u", "l", "l">>
    [] v.t = "array" ->
         IF v.a = <<>> THEN <<>>
         ELSE (IF Head(v.a).t \in {"undefined", "null"}
                 THEN <<>> ELSE StringOf(Head(v.a)))
                \o (IF Len(v.a) = 1
                      THEN <<>> ELSE <<",">> \o StringOf(JsArray(Tail(v.a))))
    [] OTHER -> <<"[", "o", "b", "j", "e", "c", "t", " ", "O", "b", "j", "e", "c", "t", "]">>

\* html.replace(/<[^>]*>/g, "").trim()
RECURSIVE CloseAt(_, _)
CloseAt(s, i) ==
  IF i > Len(s) THEN 0 ELSE IF s[i] = ">" THEN i ELSE CloseAt(s, i + 1)

RECURSIVE RemoveTags(_)
RemoveTags(s) ==
  IF s = <<>> THEN <<>>
  ELSE IF Head(s) = "<" /\ CloseAt(s, 2) # 0
    THEN RemoveTags(SubSeq(s, CloseAt(s, 2) + 1, Len(s)))
    ELSE <<Head(s)>> \o RemoveTags(Tail(s))

stripHtmlTags(html) == Trim(RemoveTags(html))

\* The 14 field kinds of CmpFieldType.
FieldTypes ==
  { "text", "text_area", "richtext", "brief", "checkbox", "radio_button",
    "dropdown", "label", "date", "file", "percentage_number",
    "currency_number", "instruction", "section" }

\* A CmpFormField: type_specific_meta is given by its choices (none: <<>>) and
\* is_multi_select; logic_rules is a sequence of CmpLogicRule.
NewField(identifier, type, is_required, sort_order, is_multi_select, choices, logic_rules) ==
  [ identifier |-> identifier, label |-> identifier, type |-> type,
    is_required |-> is_required, sort_order |-> sort_order,
    is_multi_select |-> is_multi_select, choices |-> choices,
    logic_rules |-> logic_rules ]

\* isValidChoiceId
isValidChoiceId(field, id) ==
  \E i \in DOMAIN field.choices : field.choices[i].id = id

\* An error message `${field.label} ...`, and null.
Message(field, text) == <<field.label, text>>
NoError == <<>>

\* new Date(value) is a valid date: the ISO dates among the strings.
IsValidDate(s) ==
  /\ Len(s) = 10
  /\ \A i \in {1, 2, 3, 4, 6, 7, 9, 10} : \E d \in DOMAIN DigitChars : DigitChars[d] = s[i]
  /\ s[5] = "-" /\ s[8] = "-"

\* validateField for checkbox and for a multi-select dropdown or label: the
\* required test, then the loop over the selected ids.
ValidateMultiWhenRequired(field, value) ==
  IF field.is_required /\ (value.t # "array" \/ Len(value.a) = 0)
    THEN Message(field, "requires at least one selection.")
  ELSE IF /\ field.is_required
          /\ \E i \in DOMAIN value.a :
               value.a[i].t # "string" \/ ~isValidChoiceId(field, value.a[i].s)
    THEN Message(field, "contains an invalid selection.")
  ELSE NoError

ValidateMulti(field, value) ==
  IF field.is_required /\ (value.t # "array" \/ Len(value.a) = 0)
    THEN Message(field, "requires at least one selection.")
  ELSE IF /\ value.t = "array"
          /\ \E i \in DOMAIN value.a :
               value.a[i].t # "string" \/ ~isValidChoiceId(field, value.a[i].s)
    THEN Message(field, "contains an invalid selection.")
  ELSE NoError

\* validateField for radio_button and for a single-select dropdown or label.
ValidateSingle(field, value) ==
  IF field.is_required /\ (TypeOf(value) # "string" \/ value.s = <<>>)
    THEN Message(field, "is required.")
  ELSE IF TypeOf(value) = "string" /\ value.s # <<>> /\ ~isValidChoiceId(field, value.s)
    THEN Message(field, "contains an invalid selection.")
  ELSE NoError

\* validateField for date.
ValidateDateParsesEmpty(field, value) ==
  IF field.is_required /\ (TypeOf(value) # "string" \/ Trim(value.s) = <<>>)
    THEN Message(field, "is required.")
  ELSE IF TypeOf(value) = "string" /\ ~IsValidDate(value.s)
    THEN Message(field, "must be a valid date.")
  ELSE NoError

ValidateDate(field, value) ==
  IF field.is_required /\ (TypeOf(value) # "string" \/ Trim(value.s) = <<>>)
    THEN Message(field, "is required.")
  ELSE IF TypeOf(value) = "string" /\ Trim(value.s) # <<>> /\ ~IsValidDate(value.s)
    THEN Message(field, "must be a valid date.")
  ELSE NoError

\* The bounds test of the two number kinds on a number that is not NaN.
OutOfBoundsExclusive(type, n) ==
  IF type = "percentage_number" THEN n <= 0 \/ n >= 100 ELSE n <= 0

OutOfBounds(type, n) ==
  IF type = "percentage_number" THEN n < 0 \/ n > 100 ELSE n < 0

\* validateField: the error message, or null.  For file, !value holds of
\* undefined, null, "" and 0.
validateField(field, value) ==
  CASE field.type \in {"text", "text_area"} ->
         IF field.is_required /\ (TypeOf(value) # "string" \/ Trim(value.s) = <<>>)
           THEN Message(field, "is required.")
           ELSE NoError
    [] field.type \in {"richtext", "brief"} ->
         IF field.is_required
              /\ (TypeOf(value) # "string" \/ stripHtmlTags(value.s) = <<>>)
           THEN Message(field, "is required.")
           ELSE NoError
    [] field.type = "checkbox" -> ValidateMulti(field, value)
    [] field.type = "radio_button" -> ValidateSingle(field, value)
    [] field.type \in {"dropdown", "label"} ->
         IF field.is_multi_select
           THEN ValidateMulti(field, value)
           ELSE ValidateSingle(field, value)
    [] field.type = "date" -> ValidateDate(field, value)
    [] field.type = "file" ->
         IF field.is_required
              /\ value \in {JsUndefined, JsNull, JsString(<<>>), JsNumber(0)}
           THEN Message(field, "is required.")
           ELSE NoError
    [] field.type = "percentage_number" ->
         IF field.is_required /\ TypeOf(value) # "number"
           THEN Message(field, "is required.")
         ELSE IF TypeOf(value) = "number" /\ OutOfBounds(field.type, value.n)
           THEN Message(field, "must be between 0 and 100.")
         ELSE NoError
    [] field.type = "currency_number" ->
         IF field.is_required /\ TypeOf(value) # "number"
           THEN Message(field, "is required.")
         ELSE IF TypeOf(value) = "number" /\ OutOfBounds(field.type, value.n)
           THEN Message(field, "must be 0 or greater.")
         ELSE NoError
    [] field.type \in {"instruction", "section"} -> NoError
    [] OTHER -> NoError

\* values[identifier], and the object with one key set.
Get(values, key) == IF key \in DOMAIN values THEN values[key] ELSE JsUndefined

Put(map, key, value) ==
  [k \in DOMAIN map \cup {key} |-> IF k = key THEN value ELSE map[k]]

\* validateAllFields: the loop over fields, from the errors found so far.
RECURSIVE ValidateLoop(_, _, _, _)
ValidateLoop(fields, values, visibleFields, errors) ==
  IF fields = <<>> THEN errors
  ELSE LET field == Head(fields)
           error == validateField(field, Get(values, field.identifier))
       IN ValidateLoop(Tail(fields), values, visibleFields,
            IF field.identifier \in visibleFields /\ error # NoError
              THEN Put(errors, field.identifier, error)
              ELSE errors)

\* validateAllFields: the error map, identifier to message.
validateAllFieldsVisitsAll(fields, values, visibleFields) ==
  ValidateLoop(fields, values, { fields[i].identifier : i \in DOMAIN fields }, <<>>)

validateAllFields(fields, values, visibleFields) ==
  ValidateLoop(fields, values, visibleFields, <<>>)

\* The snapshot every form of the pipeline holds: one required text field.
TitleSnapshot == << NewField("title", "text", TRUE, 1, FALSE, <<>>, <<>>) >>

\* JSON.parse of the formData a guest sends with the title typed.
ParsedTitle(title) == [title |-> JsString(title)]

\* allFieldIdentifiers of the submit handler.
AllFieldIdentifiers(fields) == { fields[i].identifier : i \in DOMAIN fields }

\* A SerializedFieldEntry, and the null serializeFieldValue returns for a
\* field that is not serialized.
Entry(field, values) ==
  [identifier |-> field.identifier, type |-> field.type, values |-> values]

NullEntry == [identifier |-> "null", type |-> "null", values |-> <<>>]

\* { id: c.id, name: c.name }
ChoiceObject(c) ==
  JsObject(<< <<"id", JsString(c.id)>>, <<"name", JsString(c.name)>> >>)

\* choices.find((c) => c.id === id), looking from index i on: the index of
\* the choice found, or 0.
RECURSIVE FindFrom(_, _, _)
FindFrom(choices, id, i) ==
  IF i > Len(choices) THEN 0
  ELSE IF choices[i].id = id THEN i
  ELSE FindFrom(choices, id, i + 1)

\* arrayValue.map(find).filter(Boolean).map(choice object)
RECURSIVE ChoiceObjects(_, _)
ChoiceObjects(choices, a) ==
  IF a = <<>> THEN <<>>
  ELSE LET i == IF Head(a).t = "string" THEN FindFrom(choices, Head(a).s, 1) ELSE 0
       IN (IF i = 0 THEN <<>> ELSE <<ChoiceObject(choices[i])>>)
            \o ChoiceObjects(choices, Tail(a))

\* typeof value === "string" ? value : ""
StringValue(value) == IF TypeOf(value) = "string" THEN value.s ELSE <<>>

\* serializeFieldValue for checkbox and a multi-select dropdown or label.
SerializeMulti(field, value) ==
  Entry(field, ChoiceObjects(field.choices,
                             IF value.t = "array" THEN value.a ELSE <<>>))

\* serializeFieldValue for radio_button and a single-select dropdown or label.
SerializeSingle(field, value) ==
  LET i == FindFrom(field.choices, StringValue(value), 1)
  IN IF i # 0
       THEN Entry(field, <<ChoiceObject(field.choices[i])>>)
       ELSE Entry(field, <<JsString(StringValue(value))>>)

\* serializeFieldValue.  A date without a time gets T00:00:00Z appended; a
\* number is value != null && value !== "" ? String(value) : "0".
serializeFieldValue(field, value) ==
  CASE field.type \in {"text", "text_area"} ->
         Entry(field, <<JsString(StringValue(value))>>)
    [] field.type \in {"richtext", "brief"} ->
         Entry(field, << JsObject(<< <<"type", JsString(<<"text_brief">>)>>,
                                     <<"value", JsString(StringValue(value))>> >>) >>)
    [] field.type = "checkbox" -> SerializeMulti(field, value)
    [] field.type \in {"dropdown", "label"} ->
         IF field.is_multi_select
           THEN SerializeMulti(field, value)
           ELSE SerializeSingle(field, value)
    [] field.type = "radio_button" -> SerializeSingle(field, value)
    [] field.type = "date" ->
         LET s == StringValue(value)
         IN Entry(field,
              << JsString(IF s # <<>> /\ ~\E i \in DOMAIN s : s[i] = "T"
                            THEN s \o <<"T", "0", "0", ":", "0", "0", ":", "0", "0", "Z">>
                            ELSE s) >>)
    [] field.type \in {"percentage_number", "currency_number"} ->
         Entry(field,
           << JsString(IF value.t \notin {"undefined", "null"} /\ value # JsString(<<>>)
                         THEN StringOf(value) ELSE <<"0">>) >>)
    [] field.type \in {"file", "instruction", "section"} -> NullEntry
    [] OTHER -> NullEntry

\* serializeFormData: one pass over fields, in the order of the list given.
RECURSIVE serializeFormData(_, _, _)
serializeFormData(fields, values, visibleFields) ==
  IF fields = <<>> THEN <<>>
  ELSE LET field == Head(fields)
           entry == serializeFieldValue(field, Get(values, field.identifier))
       IN (IF field.identifier \in visibleFields /\ entry # NullEntry
             THEN <<entry>> ELSE <<>>)
            \o serializeFormData(Tail(fields), values, visibleFields)

\* -------------------------------------------------------- conditional logic
\* [...fields].sort((a, b) => a[property] - b[property]): stable, a field
\* goes after every field it is not before.  A CmpFormField has sort_order; of
\* any other property the difference is NaN and no field is before another.
RECURSIVE Sort(_, _)
Sort(fields, property) ==
  IF fields = <<>> THEN <<>>
  ELSE LET last == fields[Len(fields)]
           rest == Sort(SubSeq(fields, 1, Len(fields) - 1), property)
           k == Cardinality({ i \in DOMAIN rest :
                                ~(/\ property = "sort_order"
                                  /\ last.sort_order < rest[i].sort_order) })
       IN SubSeq(rest, 1, k) \o <<last>> \o SubSeq(rest, k + 1, Len(rest))

\* evaluateConditions: every condition of the rule holds of the values.
evaluateConditions(rule, values) ==
  \A c \in DOMAIN rule.conditions :
    LET condition == rule.conditions[c]
        fieldValue == Get(values, condition.field_identifier)
    IN /\ condition.operator = "equal"
       /\ IF fieldValue.t = "array"
            THEN \E v \in DOMAIN condition.values, e \in DOMAIN fieldValue.a :
                   fieldValue.a[e] = JsString(condition.values[v])
            ELSE \E v \in DOMAIN condition.values :
                   condition.values[v] =
                     IF fieldValue.t \in {"undefined", "null"}
                       THEN <<>> ELSE StringOf(fieldValue)

\* sortedFields.findIndex((f) => f.identifier === identifier), from index i
\* on: the index, or 0 where the source has -1.
RECURSIVE findIndex(_, _, _)
findIndex(sortedFields, identifier, i) ==
  IF i > Len(sortedFields) THEN 0
  ELSE IF sortedFields[i].identifier = identifier THEN i
  ELSE findIndex(sortedFields, identifier, i + 1)

\* The fields a firing jump_to rule deletes from visibleFields.
JumpHidesTarget(sortedFields, currentIndex, targetIndex) ==
  IF currentIndex # 0 /\ targetIndex # 0 /\ targetIndex > currentIndex
    THEN { sortedFields[i].identifier : i \in (currentIndex + 1)..targetIndex }
    ELSE {}

JumpHides(sortedFields, currentIndex, targetIndex) ==
  IF currentIndex # 0 /\ targetIndex # 0 /\ targetIndex > currentIndex
    THEN { sortedFields[i].identifier : i \in (currentIndex + 1)..(targetIndex - 1) }
    ELSE {}

\* Array.from(new Set([...existing, ...ids])): existing, then the ids not
\* yet in it, each once.
CombinedReplaces(existing, ids) == ids

RECURSIVE Combined(_, _)
Combined(existing, ids) ==
  IF ids = <<>> THEN existing
  ELSE Combined(IF \E i \in DOMAIN existing : existing[i] = Head(ids)
                  THEN existing ELSE Append(existing, Head(ids)),
                Tail(ids))

\* rule.conditions.flatMap((c) => c.values)
RECURSIVE flatValues(_)
flatValues(conditions) ==
  IF conditions = <<>> THEN <<>>
  ELSE Head(conditions).values \o flatValues(Tail(conditions))

\* The two loops of computeConditionalLogic from field f, rule r on, with the
\* result so far.
RECURSIVE LogicLoopSkipsHidden(_, _, _, _, _)
LogicLoopSkipsHidden(sortedFields, values, f, r, result) ==
  IF f > Len(sortedFields) THEN result
  ELSE IF \/ r > Len(sortedFields[f].logic_rules)
          \/ sortedFields[f].identifier \notin result.visibleFields
    THEN LogicLoopSkipsHidden(sortedFields, values, f + 1, 1, result)
  ELSE LET field == sortedFields[f]
           rule == field.logic_rules[r]
           conditionsMet == evaluateConditions(rule, values)
           hidden ==
             IF rule.action = "jump_to" /\ conditionsMet
               THEN JumpHides(sortedFields,
                              findIndex(sortedFields, field.identifier, 1),
                              findIndex(sortedFields, rule.target_identifier, 1))
               ELSE {}
           choices ==
             IF rule.action = "show_values" /\ conditionsMet
               THEN Put(result.filteredChoices, rule.target_identifier,
                        Combined(IF rule.target_identifier \in DOMAIN result.filteredChoices
                                   THEN result.filteredChoices[rule.target_identifier]
                                   ELSE <<>>,
                                 flatValues(rule.conditions)))
               ELSE result.filteredChoices
       IN LogicLoopSkipsHidden(sortedFields, values, f, r + 1,
            [ visibleFields |-> result.visibleFields \ hidden,
              filteredChoices |-> choices ])

RECURSIVE LogicLoop(_, _, _, _, _)
LogicLoop(sortedFields, values, f, r, result) ==
  IF f > Len(sortedFields) THEN result
  ELSE IF r > Len(sortedFields[f].logic_rules)
    THEN LogicLoop(sortedFields, values, f + 1, 1, result)
  ELSE LET field == sortedFields[f]
           rule == field.logic_rules[r]
           conditionsMet == evaluateConditions(rule, values)
           hidden ==
             IF rule.action = "jump_to" /\ conditionsMet
               THEN JumpHides(sortedFields,
                              findIndex(sortedFields, field.identifier, 1),
                              findIndex(sortedFields, rule.target_identifier, 1))
               ELSE {}
           choices ==
             IF rule.action = "show_values" /\ conditionsMet
               THEN Put(result.filteredChoices, rule.target_identifier,
                        Combined(IF rule.target_identifier \in DOMAIN result.filteredChoices
                                   THEN result.filteredChoices[rule.target_identifier]
                                   ELSE <<>>,
                                 flatValues(rule.conditions)))
               ELSE result.filteredChoices
       IN LogicLoop(sortedFields, values, f, r + 1,
            [ visibleFields |-> result.visibleFields \ hidden,
              filteredChoices |-> choices ])

\* computeConditionalLogic, which sorts a copy of the fields by a.order -
\* b.order.
computeConditionalLogic(fields, values) ==
  LogicLoop(Sort(fields, "order"), values, 1, 1,
            [ visibleFields |-> AllFieldIdentifiers(fields),
              filteredChoices |-> <<>> ])

\* The row prisma.submission.create makes.
NewSubmission(token, value) ==
  [ urlId |-> token, formData |-> value, status |-> "PENDING",
    cmpWorkRequestId |-> NULL, errorMessage |-> "null",
    retryCount |-> 0, nextRetryAt |-> NULL ]

\* prisma.formUrl.updateMany({where: {id, isUsed: false}}).count
MarkUsedCountAlways(token) == 1

MarkUsedCount(token) == IF isUsed[token] THEN 0 ELSE 1

\* The update the submit handler's catch block writes.
InitialFailureNoSchedule(row, message) ==
  [row EXCEPT !.status = "FAILED", !.errorMessage = message]

InitialFailure(row, message) ==
  [row EXCEPT !.status = "FAILED", !.errorMessage = message,
              !.nextRetryAt = now + Backoff(0)]

\* The update the submit handler writes on success.
InitialSuccess(row, workRequestId) ==
  [row EXCEPT !.status = "SUBMITTED", !.cmpWorkRequestId = workRequestId]

\* nextRetryAt of a failed retry, from the new retry count.
NextRetryAtOldIndex(newRetryCount) ==
  IF newRetryCount < MAX_RETRIES THEN now + Backoff(newRetryCount - 1) ELSE NULL

NextRetryAt(newRetryCount) ==
  IF newRetryCount < MAX_RETRIES THEN now + Backoff(newRetryCount) ELSE NULL

\* The update the retry handler's catch block writes; snap is the row as the
\* batch query returned it.
RetryFailure(row, snap, message) ==
  [row EXCEPT !.status = "FAILED", !.retryCount = snap.retryCount + 1,
              !.errorMessage = message,
              !.nextRetryAt = NextRetryAt(snap.retryCount + 1)]

\* The update the retry handler writes on success.
RetrySuccess(row, workRequestId) ==
  [row EXCEPT !.status = "SUBMITTED", !.cmpWorkRequestId = workRequestId,
              !.errorMessage = "null", !.nextRetryAt = NULL]

\* The where clause of the batch query.
EligibleBeforeDue(row, at) ==
  /\ row.status \in {"FAILED", "RETRYING"}
  /\ row.nextRetryAt # NULL
  /\ row.retryCount < MAX_RETRIES

EligibleStrictlyLater(row, at) ==
  /\ row.status \in {"FAILED", "RETRYING"}
  /\ row.nextRetryAt # NULL /\ row.nextRetryAt < at
  /\ row.retryCount < MAX_RETRIES

Eligible(row, at) ==
  /\ row.status \in {"FAILED", "RETRYING"}
  /\ row.nextRetryAt # NULL /\ row.nextRetryAt <= at
  /\ row.retryCount < MAX_RETRIES

\* The remote calls of one attempt, in the order the client issues them:
\* call 1 fetches the OAuth token, call 2 posts the work request, call 2 + k
\* uploads the k-th file (the three steps of uploadAttachment, taken as one).
\* failAt names the call that throws, 0 for none.
CREATE_CALL == 2

\* Number of calls issued when the attempt has `files` files to upload.
CallsIssued(files, failAt) == IF failAt = 0 THEN CREATE_CALL + files ELSE failAt

\* Whether the POST of the work request succeeded.
WorkRequestCreated(failAt) == failAt = 0 \/ failAt > CREATE_CALL

\* The remote system after the attempt for Submission id.
RemoteCreate(id, failAt) ==
  IF WorkRequestCreated(failAt)
    THEN [created EXCEPT ![id] = IF @ < MaxRemote THEN @ + 1 ELSE @]
    ELSE created

\* ----------------------------------------------------------------- errors
\* Messages of the errors the try blocks catch: the credential check's, and
\* those a failed token fetch, API call and file upload throw (each text goes
\* on with the HTTP status and body, which are not followed here).
NoCredential == "No active CMP credentials available for this form."
TokenError == "Failed to fetch CMP access token."
RemoteError == "CMP API error."
UploadError == "CMP file upload to pre-signed URL failed."

\* The message of the error thrown by call failAt of an attempt.
ErrorText(failAt) ==
  IF failAt = 1 THEN TokenError
  ELSE IF failAt = CREATE_CALL THEN RemoteError
  ELSE UploadError

\* --------------------------------------------------------------- CMP client
\* auth.ts: const EXPIRY_BUFFER_MS = 5 * 60 * 1000
EXPIRY_BUFFER_MS == 5 * 60 * 1000

\* HTTP statuses the token endpoint, the API and the object store answer with.
Statuses == {200, 204, 401, 500}

\* Response.ok
ResponseOk(status) == status >= 200 /\ status <= 299

\* expires_in of a token response, in seconds.
ExpiresInInputs == {300, 3600}

\* What the network does to one attempt: whether the token endpoint answers
\* ok (asked only if a token must be fetched) with which expires_in, and the
\* status the API answers with.
AttemptInputs == [tokenOk : BOOLEAN, expiresIn : ExpiresInInputs, status : Statuses]

\* new CmpTokenManager(clientId, clientSecret)
NewTokenManager == [accessToken |-> "null", expiresAt |-> 0]

\* CmpTokenManager.invalidate
InvalidateKeepsToken(tm) == tm

invalidate(tm) == [accessToken |-> "null", expiresAt |-> 0]

\* The calls a request makes, in order: one record per call.
FetchEvent(ok) == [e |-> "fetchToken", status |-> IF ok THEN 200 ELSE 500]
InvalidateEvent == [e |-> "invalidate", status |-> 0]
ApiEvent(status) == [e |-> "api", status |-> status]

\* CmpTokenManager.getToken with fetchToken: the cached token if it is more
\* than the buffer from expiry, else a fetch, which stores the new token or
\* throws.
getTokenIgnoresBuffer(tm, in) ==
  IF tm.accessToken # "null" /\ now < tm.expiresAt
    THEN [tm |-> tm, events |-> <<>>, thrown |-> FALSE]
  ELSE IF in.tokenOk
    THEN [tm |-> [accessToken |-> "access_token",
                  expiresAt |-> now + in.expiresIn * 1000],
          events |-> <<FetchEvent(TRUE)>>, thrown |-> FALSE]
    ELSE [tm |-> tm, events |-> <<FetchEvent(FALSE)>>, thrown |-> TRUE]

getToken(tm, in) ==
  IF tm.accessToken # "null" /\ now < tm.expiresAt - EXPIRY_BUFFER_MS
    THEN [tm |-> tm, events |-> <<>>, thrown |-> FALSE]
  ELSE IF in.tokenOk
    THEN [tm |-> [accessToken |-> "access_token",
                  expiresAt |-> now + in.expiresIn * 1000],
          events |-> <<FetchEvent(TRUE)>>, thrown |-> FALSE]
    ELSE [tm |-> tm, events |-> <<FetchEvent(FALSE)>>, thrown |-> TRUE]

\* The closure `attempt` of CmpClient.request: getToken, then fetch.
Attempt(tm, in) ==
  LET g == getToken(tm, in)
  IN IF g.thrown
       THEN [tm |-> g.tm, events |-> g.events, thrown |-> TRUE, status |-> 0]
       ELSE [tm |-> g.tm, events |-> Append(g.events, ApiEvent(in.status)),
             thrown |-> FALSE, status |-> in.status]

\* The end of CmpClient.request: throw unless response.ok.
Conclude(tm, trace, status) ==
  [tm |-> tm, trace |-> trace,
   error |-> IF ResponseOk(status) THEN "null" ELSE RemoteError]

\* CmpClient.request: the token manager after it, the calls it made, and the
\* message of the error it threw or "null".
Request(tm, in1, in2) ==
  LET a1 == Attempt(tm, in1)
  IN IF a1.thrown
       THEN [tm |-> a1.tm, trace |-> a1.events, error |-> TokenError]
     ELSE IF a1.status = 401
       THEN LET a2 == Attempt(invalidate(a1.tm), in2)
                trace == a1.events \o <<InvalidateEvent>> \o a2.events
            IN IF a2.thrown
                 THEN [tm |-> a2.tm, trace |-> trace, error |-> TokenError]
                 ELSE Conclude(a2.tm, trace, a2.status)
     ELSE Conclude(a1.tm, a1.events, a1.status)

\* Whether a token fetched earlier in this process for the credential is
\* still more than the buffer from expiry, no 401 having been seen since.
IssuedNow(c) == c.issuedUntil # 0 /\ now < c.issuedUntil - EXPIRY_BUFFER_MS

\* Until when the token most recently fetched for the credential is good,
\* after a request: 0 once a 401 has invalidated it.
IssuedAfter(issuedUntil, r) ==
  IF \E k \in DOMAIN r.trace :
       r.trace[k] = InvalidateEvent \/ r.trace[k] = FetchEvent(TRUE)
    THEN IF r.tm.accessToken = "null" THEN 0 ELSE r.tm.expiresAt
    ELSE issuedUntil

\* The client createCmpClientFromCredential returns, nothing called yet.
\*   tm, pc, meta, path, allItems   the objects' fields and the locals of the
\*                                  method in progress
\*   op, trace, steps, error        what the last method called did
\*   issuedUntil, cached            the record of the tokens the process fetched
FreshClient ==
  [ tm |-> NewTokenManager, pc |-> "idle", meta |-> <<>>, path |-> "null",
    allItems |-> 0, op |-> "none", trace |-> <<>>, steps |-> <<>>,
    error |-> "null", issuedUntil |-> 0, cached |-> FALSE ]

NewClient == FreshClient

\* The client as a method finds it when it is called.
Cleared(c) ==
  [FreshClient EXCEPT !.tm = c.tm, !.issuedUntil = c.issuedUntil]

\* The client after one CmpClient.request.
ApplyRequest(c, in1, in2) ==
  LET r == Request(c.tm, in1, in2)
  IN [c EXCEPT !.tm = r.tm, !.trace = r.trace, !.error = r.error,
               !.cached = IssuedNow(c),
               !.issuedUntil = IssuedAfter(c.issuedUntil, r)]

\* A handler calls createCmpClientFromCredential: a new CmpTokenManager and a
\* new CmpClient for the same credential.
createCmpClientFromCredential ==
  /\ cmp.pc = "idle"
  /\ cmp' = Cleared([cmp EXCEPT !.tm = NewTokenManager])
  /\ UNCHANGED <<now, pipeline, limiter, guest, concurrent>>

\* createWorkRequest (or getTemplate): one request.
createWorkRequest(in1, in2) ==
  /\ cmp.pc = "idle"
  /\ cmp' = [ApplyRequest(Cleared(cmp), in1, in2) EXCEPT !.op = "request"]
  /\ UNCHANGED <<now, pipeline, limiter, guest, concurrent>>

\* upload_meta_fields of the upload descriptor, in Object.entries order.
MetaInputs == { <<"key">>, <<"key", "policy">>, <<"policy", "key">> }

\* The multipart body of step 2: the fields in the order they are appended.
BuildForm(metaFields) == metaFields \o <<"file">>

\* Whether step 2's answer lets the upload go on.
PresignedAcceptedAlways(status) == TRUE

PresignedAccepted(status) == ResponseOk(status) \/ status = 204

\* One step of uploadAttachment, as done.
UploadStep(name, form, status, ok) ==
  [step |-> name, form |-> form, status |-> status, ok |-> ok]

\* uploadAttachment, step 1: GET /v3/upload-url.
uploadUrl(in1, in2, meta) ==
  /\ cmp.pc = "idle"
  /\ LET c == ApplyRequest(Cleared(cmp), in1, in2)
         ok == c.error = "null"
     IN cmp' = [c EXCEPT !.op = "upload",
                  !.steps = <<UploadStep("upload-url", <<>>, 0, ok)>>,
                  !.meta = IF ok THEN meta ELSE <<>>,
                  !.pc = IF ok THEN "presigned" ELSE "idle"]
  /\ UNCHANGED <<now, pipeline, limiter, guest, concurrent>>

\* Step 2: the multipart POST to the pre-signed URL, without a token.
uploadToPresignedUrl(status) ==
  /\ cmp.pc = "presigned"
  /\ LET ok == PresignedAccepted(status)
     IN cmp' = [cmp EXCEPT
                  !.steps = Append(@, UploadStep("presigned", BuildForm(cmp.meta), status, ok)),
                  !.error = IF ok THEN "null" ELSE UploadError,
                  !.meta = <<>>,
                  !.pc = IF ok THEN "attach" ELSE "idle"]
  /\ UNCHANGED <<now, pipeline, limiter, guest, concurrent>>

\* Step 3: POST {key, name} to the work request's attachments.
uploadAttachment(in1, in2) ==
  /\ cmp.pc = "attach"
  /\ LET c == ApplyRequest(cmp, in1, in2)
     IN cmp' = [c EXCEPT
                  !.steps = Append(@, UploadStep("attachments", <<>>, 0, c.error = "null")),
                  !.pc = "idle"]
  /\ UNCHANGED <<now, pipeline, limiter, guest, concurrent>>

\* fetchAllPages: if (allItems.length > 5000) break
ITEM_CAP == 5000

\* Number of items on a page, and the pagination.next link of a page (its
\* path, or "null" for none).
PageSizes == {0, 2500, 5001}
BasePath == "/v3/templates"
NextInputs == {"null", BasePath, "/v3/templates?page=2"}

\* getTemplates calls fetchAllPages: allItems = [], path = basePath.
getTemplates ==
  /\ cmp.pc = "idle"
  /\ cmp' = [Cleared(cmp) EXCEPT !.op = "pages", !.pc = "pages", !.path = BasePath]
  /\ UNCHANGED <<now, pipeline, limiter, guest, concurrent>>

\* One turn of the while loop of fetchAllPages: the request of the page at
\* path, its items pushed, path set from its next link, the cap tested.
fetchAllPages(in1, in2, size, next) ==
  /\ cmp.pc = "pages"
  /\ LET c == ApplyRequest(cmp, in1, in2)
         n == cmp.allItems + size
     IN cmp' = IF c.error # "null"
                 THEN [c EXCEPT !.pc = "idle", !.path = "null"]
               ELSE IF next = "null" \/ n > ITEM_CAP
                 THEN [c EXCEPT !.pc = "idle", !.path = "null", !.allItems = n]
               ELSE [c EXCEPT !.path = next, !.allItems = n]
  /\ UNCHANGED <<now, pipeline, limiter, guest, concurrent>>

\* How far the clock runs while the client is followed: two hours.
ClientHorizonMs == 7200000

\* Time passes until a fetched token comes within the buffer of its expiry.
ClientTick ==
  /\ \E t \in {cmp.tm.expiresAt - EXPIRY_BUFFER_MS, cmp.issuedUntil - EXPIRY_BUFFER_MS} :
       t > now /\ t <= ClientHorizonMs /\ now' = t
  /\ UNCHANGED <<pipeline, library>>

\* ------------------------------------------------------------- rate limiter
\* submissions route: const rateLimiter = new RateLimiter(5, 60000)
maxRequests == 5
windowMs == 60000

\* Number of checks made of the limiter over the whole run.
MaxChecks == 7

\* The keys (client addresses) checked.
Keys == {"a", "b"}

\* The time between one check and the next.
CheckGapsMs == {0, 1, windowMs - 1}

\* requests.get(ip) of a key without entry.
NoEntry == [count |-> 0, resetTime |-> 0]

\* new RateLimiter(maxRequests, windowMs): no entry; per key, the checks made
\* so far with the time and the answer of each.
NewLimiter ==
  [ requests |-> [k \in Keys |-> NoEntry], log |-> [k \in Keys |-> <<>>] ]

\* RateLimiter.cleanup at clock reading `at`.
cleanup(requests, at) ==
  [k \in Keys |->
     IF requests[k] # NoEntry /\ at >= requests[k].resetTime
       THEN NoEntry ELSE requests[k]]

\* Math.ceil((resetTime - now) / 1000)
RetryAfterFloor(resetTime, at) == (resetTime - at) \div 1000

RetryAfter(resetTime, at) == (resetTime - at + 999) \div 1000

\* RateLimiter.check(ip) at clock reading `at`, after cleanup: the entries it
\* leaves and its answer (retryAfter 0 standing for none).
checkExtendsWindow(requests, ip, at) ==
  LET entry == requests[ip]
      opened == [requests EXCEPT ![ip] = [count |-> 1, resetTime |-> at + windowMs]]
  IN IF entry = NoEntry \/ at >= entry.resetTime
       THEN [requests |-> opened, allowed |-> TRUE, retryAfter |-> 0]
     ELSE IF entry.count >= maxRequests
       THEN [requests |-> [requests EXCEPT ![ip].resetTime = at + windowMs],
             allowed |-> FALSE, retryAfter |-> RetryAfter(entry.resetTime, at)]
     ELSE [requests |-> [requests EXCEPT ![ip].count = @ + 1],
           allowed |-> TRUE, retryAfter |-> 0]

check(requests, ip, at) ==
  LET entry == requests[ip]
      opened == [requests EXCEPT ![ip] = [count |-> 1, resetTime |-> at + windowMs]]
  IN IF entry = NoEntry
       THEN [requests |-> opened, allowed |-> TRUE, retryAfter |-> 0]
     ELSE IF at >= entry.resetTime
       THEN [requests |-> opened, allowed |-> TRUE, retryAfter |-> 0]
     ELSE IF entry.count >= maxRequests
       THEN [requests |-> requests, allowed |-> FALSE,
             retryAfter |-> RetryAfter(entry.resetTime, at)]
     ELSE [requests |-> [requests EXCEPT ![ip].count = @ + 1],
           allowed |-> TRUE, retryAfter |-> 0]

\* A request from address ip arrives gap after the previous one and the
\* handler calls rateLimiter.check(ip).
Check(ip, gap) ==
  /\ Len(limiter.log["a"]) + Len(limiter.log["b"]) < MaxChecks
  /\ now' = now + gap
  /\ LET r == check(cleanup(limiter.requests, now'), ip, now')
     IN limiter' =
          [ requests |-> r.requests,
            log |-> [limiter.log EXCEPT ![ip] =
                       Append(@, [at |-> now', allowed |-> r.allowed,
                                  retryAfter |-> r.retryAfter])] ]
  /\ UNCHANGED <<pipeline, cmp, guest, concurrent>>

\* ------------------------------------------- token manager, several callers
\* Requests of one CmpClient in flight at once, sharing its CmpTokenManager.
Callers == {"a", "b", "c"}

\* A caller before its request: where it stands, the token getToken handed
\* it, whether it has had its 401 retry, and the error it threw.
NoRequest == [pc |-> "idle", token |-> "null", retried |-> FALSE, error |-> "null"]

\* One token manager holding no token, and no request yet.
NoCallers == [tm |-> NewTokenManager, of |-> [c \in Callers |-> NoRequest]]

\* The closure `attempt` up to its first await that does not settle at once:
\* getToken returns the cached token and the API call is sent, or fetchToken
\* sends the token request.
attemptWithoutAwait(tm, r) == [r EXCEPT !.pc = "fetch", !.token = tm.accessToken]

attempt(tm, r) ==
  IF tm.accessToken # "null" /\ now < tm.expiresAt - EXPIRY_BUFFER_MS
    THEN [r EXCEPT !.pc = "fetch", !.token = tm.accessToken]
    ELSE [r EXCEPT !.pc = "fetchToken"]

\* No continuation is ready to run.  The event loop delivers every response,
\* and starts every request, in a task of its own, and before the next task
\* it runs the continuations the last one made ready: getToken goes on after
\* its await of fetchToken before anything else arrives.
Drained == \A c \in Callers : callers.of[c].pc # "getToken"

\* A caller calls CmpClient.request.
CallerRequest(c) ==
  /\ Drained
  /\ callers.of[c].pc = "idle"
  /\ callers' = [callers EXCEPT !.of[c] = attempt(callers.tm, @)]
  /\ UNCHANGED <<now, pipeline, cmp, limiter, guest, bucket>>

\* The token endpoint answers the caller's fetchToken: it throws, which ends
\* the request, or it stores the token and its expiry and returns.
FetchTokenReturns(c, ok, expiresIn) ==
  /\ Drained
  /\ callers.of[c].pc = "fetchToken"
  /\ callers' =
       IF ok
         THEN [callers EXCEPT
                 !.tm = [accessToken |-> "access_token",
                         expiresAt |-> now + expiresIn * 1000],
                 !.of[c].pc = "getToken"]
         ELSE [callers EXCEPT !.of[c].pc = "done", !.of[c].error = TokenError]
  /\ UNCHANGED <<now, pipeline, cmp, limiter, guest, bucket>>

\* getToken goes on after its await of fetchToken: return this.accessToken!,
\* and the API call is sent with it.
GetTokenReturns(c) ==
  /\ callers.of[c].pc = "getToken"
  /\ callers' = [callers EXCEPT !.of[c].pc = "fetch",
                                !.of[c].token = callers.tm.accessToken]
  /\ UNCHANGED <<now, pipeline, cmp, limiter, guest, bucket>>

\* The API answers the caller's call.  On the first 401 the token manager is
\* invalidated and attempt runs again; otherwise the request ends, throwing
\* unless response.ok.
ApiResponds(c, status) ==
  /\ Drained
  /\ callers.of[c].pc = "fetch"
  /\ callers' =
       IF status = 401 /\ ~callers.of[c].retried
         THEN [callers EXCEPT
                 !.tm = invalidate(@),
                 !.of[c] = attempt(invalidate(callers.tm), [@ EXCEPT !.retried = TRUE])]
         ELSE [callers EXCEPT
                 !.of[c].pc = "done",
                 !.of[c].error = IF ResponseOk(status) THEN "null" ELSE RemoteError]
  /\ UNCHANGED <<now, pipeline, cmp, limiter, guest, bucket>>

\* ------------------------------------------------------- CMP rate limiter
\* rate-limiter.ts: constructor(maxRequestsPerSecond: number = 5)
maxRequestsPerSecond == 5

\* this.refillIntervalMs = 1000
refillIntervalMs == 1000

\* Number of acquire calls over the whole run.
MaxAcquires == 11

\* How far the clock runs while the limiter is followed, and its step.
BucketHorizonMs == 2000
BucketStepMs == 500

\* The refill intervals the clock runs through, counted from construction.
Intervals == 0..(BucketHorizonMs \div refillIntervalMs)

\* new CmpRateLimiter() at clock reading 0, with the number of acquire calls
\* made, nobody sleeping in acquire and, per refill interval, the number of
\* acquire calls resolved in it.
NewBucket ==
  [ tokens |-> maxRequestsPerSecond, lastRefillTime |-> 0, calls |-> 0,
    sleeping |-> <<>>, resolved |-> [k \in Intervals |-> 0] ]

\* CmpRateLimiter.refillTokens at clock reading `at`.
refillTokens(b, at) ==
  LET elapsed == at - b.lastRefillTime
      refillCycles == elapsed \div refillIntervalMs
  IN IF elapsed >= refillIntervalMs
       THEN [b EXCEPT
               !.tokens = IF @ + refillCycles * maxRequestsPerSecond < maxRequestsPerSecond
                            THEN @ + refillCycles * maxRequestsPerSecond
                            ELSE maxRequestsPerSecond,
               !.lastRefillTime = @ + refillCycles * refillIntervalMs]
       ELSE b

\* this.tokens -= 1, and acquire resolves.
Consume(b, at) ==
  [b EXCEPT !.tokens = @ - 1,
            !.resolved[at \div refillIntervalMs] = @ + 1]

\* A caller calls acquire: it takes a token and returns, or it goes to sleep
\* until the next refill is due.
acquire ==
  /\ bucket.calls < MaxAcquires
  /\ LET b == refillTokens([bucket EXCEPT !.calls = @ + 1], now)
         waitTime == refillIntervalMs - (now - b.lastRefillTime)
     IN bucket' =
          IF b.tokens >= 1
            THEN Consume(b, now)
            ELSE [b EXCEPT !.sleeping =
                    Append(@, now + IF waitTime > 0 THEN waitTime ELSE 0)]
  /\ UNCHANGED <<now, pipeline, cmp, limiter, guest, callers>>

\* The timer of a sleeping caller has fired: acquire goes on after its await,
\* refills, takes a token and returns.
Wakes(i) ==
  /\ i \in DOMAIN bucket.sleeping
  /\ bucket.sleeping[i] <= now
  /\ bucket' =
       Consume([refillTokens(bucket, now) EXCEPT !.sleeping =
                  SubSeq(@, 1, i - 1) \o SubSeq(@, i + 1, Len(@))], now)
  /\ UNCHANGED <<now, pipeline, cmp, limiter, guest, callers>>

\* Time passes.
BucketTick ==
  /\ now + BucketStepMs <= BucketHorizonMs
  /\ now' = now + BucketStepMs
  /\ UNCHANGED <<pipeline, cmp, limiter, guest, callers, bucket>>

\* ----------------------------------------------------- form engine, called
\* The choices of every field that has choices.
Choices ==
  << [id |-> <<"x">>, name |-> <<"X">>], [id |-> <<"y">>, name |-> <<"Y">>] >>

\* The snapshots the engine is called with: a field f1 of any kind (the 14,
\* and "signature", which the code does not know), required or not, single
\* or multiple selection, alone or with a required text field f2 whose
\* sort_order is the larger, listed before it or after it.
FirstFields ==
  UNION { { NewField("f1", type, required, 1, multi,
                     IF type \in {"checkbox", "radio_button", "dropdown", "label"}
                       THEN Choices ELSE <<>>, <<>>) :
              multi \in IF type \in {"dropdown", "label"} THEN BOOLEAN ELSE {FALSE} } :
          type \in FieldTypes \cup {"signature"}, required \in BOOLEAN }

SecondField == NewField("f2", "text", TRUE, 2, FALSE, <<>>, <<>>)

FieldListInputs ==
  UNION { { <<f>>, <<f, SecondField>>, <<SecondField, f>> } : f \in FirstFields }

\* The values of f1: nothing, the empty ones, texts, ids that are and are not
\* choices, alone and together, markup without text, a date, numbers inside
\* and outside 0..100.
ValueInputs ==
  { JsUndefined, JsNull,
    JsString(<<>>), JsString(<<" ">>), JsString(<<"x">>), JsString(<<"q">>),
    JsString(<<"<", "p", ">">>),
    JsString(<<"2", "0", "2", "4", "-", "0", "1", "-", "3", "1">>),
    JsString(<<"1", "5", "0">>),
    JsArray(<<>>), JsArray(<<JsString(<<"x">>)>>), JsArray(<<JsString(<<"q">>)>>),
    JsArray(<<JsString(<<"y">>), JsString(<<"x">>)>>),
    JsArray(<<JsString(<<"x">>), JsString(<<"q">>)>>), JsArray(<<JsNumber(42)>>),
    JsNumber(0), JsNumber(42), JsNumber(100), JsNumber(101), JsNumber(150),
    JsNumber(-1) }

\* The formData: f1 with one of them, f2 left out or typed.
FormDataInputs ==
  { [f1 |-> v1, f2 |-> v2] :
      v1 \in ValueInputs, v2 \in { JsUndefined, JsString(<<"a">>) } }

\* No call of the engine in progress.
NoCall ==
  [ op |-> "none", fields |-> <<>>, values |-> <<>>, visibleFields |-> {},
    errors |-> <<>>, entries |-> <<>> ]

\* A caller (the submit handler with every field visible, the form's
\* handleSubmit with the visible ones) calls validateAllFields.
Validate(fields, values, visibleFields) ==
  /\ engine.op = "none"
  /\ engine' =
       [ op |-> "validateAllFields", fields |-> fields, values |-> values,
         visibleFields |-> visibleFields,
         errors |-> validateAllFields(fields, values, visibleFields),
         entries |-> <<>> ]
  /\ UNCHANGED <<now, pipeline, cmp, limiter, fetched, dynamicForm, logic, concurrent>>

\* A caller calls serializeFormData.
Serialize(fields, values, visibleFields) ==
  /\ engine.op = "none"
  /\ engine' =
       [ op |-> "serializeFormData", fields |-> fields, values |-> values,
         visibleFields |-> visibleFields, errors |-> <<>>,
         entries |-> serializeFormData(fields, values, visibleFields) ]
  /\ UNCHANGED <<now, pipeline, cmp, limiter, fetched, dynamicForm, logic, concurrent>>

\* The caller has used the result.
Returned ==
  /\ engine.op # "none"
  /\ engine' = NoCall
  /\ UNCHANGED <<now, pipeline, cmp, limiter, fetched, dynamicForm, logic, concurrent>>

\* ------------------------------------------------------------ dynamic form
\* A CmpLogicRule with the conditions given as <<field_identifier, values>>.
Cond(field_identifier, values) ==
  [field_identifier |-> field_identifier, operator |-> "equal", values |-> values]

\* The conditions of the rules of a form, on the dropdown A and the checkbox
\* B: none (the rule always fires), A is x, some of y and x is checked in B,
\* and both A is x and y is checked in B.
ConditionInputs ==
  { <<>>,
    << Cond("A", << <<"x">> >>) >>,
    << Cond("B", << <<"y">>, <<"x">> >>) >>,
    << Cond("A", << <<"x">> >>), Cond("B", << <<"y">> >>) >> }

\* The rules of a form: a first rule of either action on any field with any
\* target, Z being no field of the form; with it no other rule, or a second
\* show_values rule on A for C when y is checked in B, or a second jump_to
\* rule on B to D when A is x.
RuleInputs ==
  { << [source |-> source,
        rule |-> [action |-> action, target_identifier |-> target,
                  conditions |-> conditions]] >> \o second :
      action \in {"jump_to", "show_values"},
      source \in {"A", "B", "C", "D"},
      target \in {"A", "B", "C", "D", "Z"},
      conditions \in ConditionInputs,
      second \in
        { <<>>,
          << [source |-> "A",
              rule |-> [action |-> "show_values", target_identifier |-> "C",
                        conditions |-> << Cond("B", << <<"y">> >>) >>]] >>,
          << [source |-> "B",
              rule |-> [action |-> "jump_to", target_identifier |-> "D",
                        conditions |-> << Cond("A", << <<"x">> >>) >>]] >> } }

\* logic_rules of the field: the rules of the form it is the source of.
RECURSIVE RulesOf(_, _)
RulesOf(identifier, rules) ==
  IF rules = <<>> THEN <<>>
  ELSE (IF Head(rules).source = identifier THEN <<Head(rules).rule>> ELSE <<>>)
         \o RulesOf(identifier, Tail(rules))

\* formConfig.fields as the form-fetch endpoint sends them: the dropdown A,
\* the checkbox B, the dropdown C and the text field D, whose sort_order is 1
\* to 4, in this order or another.
FormInputs ==
  UNION { LET A == NewField("A", "dropdown", FALSE, 1, FALSE, Choices, RulesOf("A", rules))
              B == NewField("B", "checkbox", FALSE, 2, FALSE, Choices, RulesOf("B", rules))
              C == NewField("C", "dropdown", FALSE, 3, FALSE, Choices, RulesOf("C", rules))
              D == NewField("D", "text", FALSE, 4, FALSE, <<>>, RulesOf("D", rules))
          IN { <<A, B, C, D>>, <<D, C, B, A>>, <<B, D, A, C>> } :
          rules \in RuleInputs }

\* What a guest selects in A and checks in B.
ChangeInputs ==
  [ A |-> { JsString(<<>>), JsString(<<"x">>), JsString(<<"y">>) },
    B |-> { JsArray(<<>>), JsArray(<<JsString(<<"x">>)>>),
            JsArray(<<JsString(<<"y">>), JsString(<<"x">>)>>) } ]

\* getDefaultValue
getDefaultValue(field) ==
  CASE field.type \in {"text", "text_area", "richtext", "brief", "radio_button", "date"} ->
         JsString(<<>>)
    [] field.type = "checkbox" -> JsArray(<<>>)
    [] field.type \in {"dropdown", "label"} ->
         IF field.is_multi_select THEN JsArray(<<>>) ELSE JsString(<<>>)
    [] field.type \in {"percentage_number", "currency_number"} -> JsUndefined
    [] field.type = "file" -> JsNull
    [] OTHER -> JsString(<<>>)

\* No form is mounted.
NoForm ==
  [ mounted |-> FALSE, fields |-> <<>>, values |-> <<>>, visibleFields |-> {},
    filteredChoices |-> <<>>,
    prevResultRef |-> [visibleFields |-> {}, filteredChoices |-> <<>>] ]

\* The effect of useConditionalLogic: compute, with the reducer's
\* SET_VISIBLE_FIELDS and SET_FILTERED_CHOICES it dispatches.  On the first
\* run everything computed is dispatched; later, the visible set if it
\* differs from the previous result's, and for every key of the previous or
\* the new allow-lists whose list differs, the new list or [].
compute(state) ==
  LET result == computeConditionalLogic(state.fields, state.values)
      prev == state.prevResultRef
      ids(r, key) ==
        IF key \in DOMAIN r.filteredChoices THEN r.filteredChoices[key] ELSE <<>>
      changed ==
        IF state.mounted
          THEN { key \in DOMAIN prev.filteredChoices \cup DOMAIN result.filteredChoices :
                   ids(prev, key) # ids(result, key) }
          ELSE DOMAIN result.filteredChoices
  IN [ state EXCEPT
         !.mounted = TRUE,
         !.visibleFields =
            IF state.mounted /\ prev.visibleFields = result.visibleFields
              THEN @ ELSE result.visibleFields,
         !.filteredChoices =
            [ key \in DOMAIN @ \cup changed |->
                IF key \in changed THEN ids(result, key) ELSE @[key] ],
         !.prevResultRef = result ]

\* DynamicForm is rendered with the fetched formConfig: the fields are sorted
\* by sort_order, buildInitialState makes the state, and the effect runs.
DynamicForm(fieldsGiven) ==
  /\ ~dynamicForm.mounted
  /\ LET fields == Sort(fieldsGiven, "sort_order")
     IN dynamicForm' = compute(
          [ NoForm EXCEPT
              !.fields = fields,
              !.values = [ id \in AllFieldIdentifiers(fields) |->
                             getDefaultValue(fields[findIndex(fields, id, 1)]) ],
              !.visibleFields = AllFieldIdentifiers(fields) ])
  /\ UNCHANGED <<now, pipeline, cmp, limiter, fetched, engine, logic, concurrent>>

\* handleFieldChange: the reducer's SET_VALUE, and the effect that the new
\* values object makes run.
handleFieldChange(identifier, value) ==
  /\ dynamicForm.mounted
  /\ dynamicForm' = compute([dynamicForm EXCEPT !.values = Put(@, identifier, value)])
  /\ UNCHANGED <<now, pipeline, cmp, limiter, fetched, engine, logic, concurrent>>

\* A choice field's visibleChoices: the ids it offers, given
\* state.filteredChoices[field.identifier] where that key is set.
visibleChoices(field, filteredChoices) ==
  IF field.identifier \in DOMAIN filteredChoices
    THEN { field.choices[c].id : c \in
             { d \in DOMAIN field.choices :
                 \E i \in DOMAIN filteredChoices[field.identifier] :
                   filteredChoices[field.identifier][i] = field.choices[d].id } }
    ELSE { field.choices[c].id : c \in DOMAIN field.choices }

\* --------------------------------------------- conditional logic, called
\* computeConditionalLogic has not been called.
NoLogic ==
  [ called |-> FALSE, fields |-> <<>>, values |-> <<>>,
    result |-> [visibleFields |-> {}, filteredChoices |-> <<>>] ]

\* The values of a form of FormInputs: what the guest selected in A and
\* checked in B, and the empty strings of C and D.
FormValueInputs ==
  { [ id \in {"A", "B", "C", "D"} |->
        CASE id = "A" -> a [] id = "B" -> b [] OTHER -> JsString(<<>>) ] :
      a \in ChangeInputs["A"], b \in ChangeInputs["B"] }

\* A caller passes a field list, in the order it has it in, and the values.
CallComputeConditionalLogic(fields, values) ==
  /\ ~logic.called
  /\ logic' = [ called |-> TRUE, fields |-> fields, values |-> values,
                result |-> computeConditionalLogic(fields, values) ]
  /\ UNCHANGED <<now, pipeline, cmp, limiter, fetched, engine, dynamicForm, concurrent>>

\* ------------------------------------------------------------ initial state
\* No form has been fetched yet.
NoFetch == [token |-> "none", resp |-> "none"]

IdleRequest ==
  [ pc |-> "new", token |-> "unknown", files |-> 0,
    won |-> FALSE, sub |-> 0, wr |-> NULL, calls |-> 0,
    err |-> "null", resp |-> "none" ]

NoSnap == [id |-> 0, retryCount |-> 0, cmpWorkRequestId |-> NULL]

IdlePass ==
  [ pc |-> "idle", batch |-> {}, cur |-> NoSnap, wr |-> NULL, err |-> "null",
    processed |-> 0, succeeded |-> 0, failed |-> 0 ]

Init ==
  /\ now = 0
  /\ isUsed = [t \in Tokens |-> FALSE]
  /\ submissions = <<>>
  /\ sreq = [s \in Requests |-> IdleRequest]
  /\ pass = [p \in Passes |-> IdlePass]
  /\ created = [i \in Requests |-> 0]
  /\ overlaps = 0
  /\ cmp = NewClient
  /\ limiter = NewLimiter
  /\ fetched = NoFetch
  /\ engine = NoCall
  /\ dynamicForm = NoForm
  /\ logic = NoLogic
  /\ callers = NoCallers
  /\ bucket = NewBucket

\* ------------------------------------------------------------ public submit
\* Responses of the submit handler.
Unavailable == "400 Invalid submission."
ValidationFailed == "400 Invalid submission. details"
BadGateway == "502 Failed to submit to CMP. Please try again later."

\* The body the catch block answers with, given the message it caught.
UpstreamFailureBodyLeaks(errorMessage) == errorMessage

UpstreamFailureBody(errorMessage) == BadGateway
Received == "200 Submission received"

\* The handler returns resp: its locals are gone; what the guest sent, the
\* row it made and the answer it got are kept for the record.
Finish(r, resp) ==
  [IdleRequest EXCEPT !.pc = "done", !.token = r.token, !.won = r.won,
                      !.sub = r.sub, !.calls = r.calls, !.resp = resp]

\* The four link checks made on the FormUrl row just read.
LinkRejected(token) ==
  \/ token \notin Tokens
  \/ ~FormUrls[token].isActive
  \/ FormUrls[token].accessType = "ONE_TIME_URL" /\ isUsed[token]
  \/ FormUrls[token].expiresAt # NULL /\ now > FormUrls[token].expiresAt

\* The first of the four checks that rejects the link, in the order both
\* public routes make them, or "none".
LinkCase(token) ==
  IF token \notin Tokens THEN "missing"
  ELSE IF ~FormUrls[token].isActive THEN "inactive"
  ELSE IF FormUrls[token].accessType = "ONE_TIME_URL" /\ isUsed[token] THEN "spent"
  ELSE IF FormUrls[token].expiresAt # NULL /\ now > FormUrls[token].expiresAt
    THEN "expired"
  ELSE "none"

\* What the submit handler answers from each of the four checks.
SubmitRejectionNamesCase(case) ==
  IF case = "expired" THEN "400 This link has expired." ELSE Unavailable

SubmitRejection(case) ==
  CASE case = "missing"  -> Unavailable
    [] case = "inactive" -> Unavailable
    [] case = "spent"    -> Unavailable
    [] case = "expired"  -> Unavailable

\* The request arrives and prisma.formUrl.findUnique returns: the link is
\* checked against the row as read at this moment.  Requests are numbered in
\* the order they arrive; there are fewer of them than the 5 a minute the
\* handler's rate limiter admits from one address.  What the guest sent as
\* formData and as files is drawn where the handler first reads it, in
\* SubmitPersist and SubmitRemote.
SubmitLookup(s, token) ==
  /\ sreq[s].pc = "new"
  /\ \A r \in Requests : r < s => sreq[r].pc # "new"
  /\ sreq' = [sreq EXCEPT ![s] =
       IF LinkRejected(token)
         THEN Finish([@ EXCEPT !.token = token], SubmitRejection(LinkCase(token)))
         ELSE [@ EXCEPT !.token = token,
                 !.pc = IF FormUrls[token].accessType = "ONE_TIME_URL"
                          THEN "flip" ELSE "persist"]]
  /\ UNCHANGED <<now, isUsed, submissions, pass, created, overlaps, library>>

\* prisma.formUrl.updateMany on a one-time link: one conditional update.
SubmitFlip(s) ==
  /\ sreq[s].pc = "flip"
  /\ LET token == sreq[s].token
         count == MarkUsedCount(token)
     IN /\ isUsed' = IF count >= 1 THEN [isUsed EXCEPT ![token] = TRUE] ELSE isUsed
        /\ sreq' = [sreq EXCEPT ![s] =
             IF count # 1
               THEN Finish(@, Unavailable)
               ELSE [@ EXCEPT !.pc = "persist", !.won = TRUE]]
  /\ UNCHANGED <<now, submissions, pass, created, overlaps, library>>

\* Server-side validation with every field visible, then
\* prisma.submission.create of the PENDING row.
SubmitPersistSkipsRow(s, title) ==
  /\ sreq[s].pc = "persist"
  /\ sreq' = [sreq EXCEPT ![s] =
       IF DOMAIN validateAllFields(TitleSnapshot, ParsedTitle(title),
                                 AllFieldIdentifiers(TitleSnapshot)) # {}
         THEN Finish(@, ValidationFailed)
         ELSE [@ EXCEPT !.pc = "remote"]]
  /\ UNCHANGED <<now, isUsed, submissions, pass, created, overlaps, library>>

SubmitPersist(s, title) ==
  /\ sreq[s].pc = "persist"
  /\ IF DOMAIN validateAllFields(TitleSnapshot, ParsedTitle(title),
                                 AllFieldIdentifiers(TitleSnapshot)) # {}
       THEN /\ sreq' = [sreq EXCEPT ![s] = Finish(@, ValidationFailed)]
            /\ UNCHANGED submissions
       ELSE /\ submissions' =
                 Append(submissions, NewSubmission(sreq[s].token, title))
            /\ sreq' = [sreq EXCEPT ![s] =
                 [@ EXCEPT !.pc = "remote", !.sub = Len(submissions) + 1]]
  /\ UNCHANGED <<now, isUsed, pass, created, overlaps, library>>

\* The try block up to its database update.  The credential check throws, or
\* the client is built (a new CmpTokenManager, holding no token) and
\* createWorkRequest, then uploadAttachment for each file, run until one of
\* their calls throws.  None of this reads or writes the database.
SubmitRemote(s, files, failAt) ==
  /\ sreq[s].pc = "remote"
  /\ IF ~FormUrls[sreq[s].token].credentialActive
       THEN /\ files = 0 /\ failAt = 0
            /\ sreq' = [sreq EXCEPT ![s] =
                 [@ EXCEPT !.pc = "catch", !.err = NoCredential]]
            /\ UNCHANGED created
       ELSE /\ failAt <= CREATE_CALL + files
            /\ created' = RemoteCreate(sreq[s].sub, failAt)
            /\ sreq' = [sreq EXCEPT ![s] =
                 [@ EXCEPT !.files = files,
                    !.calls = CallsIssued(files, failAt),
                    !.wr = IF WorkRequestCreated(failAt)
                             THEN created'[sreq[s].sub] ELSE NULL,
                    !.err = IF failAt = 0 THEN "null" ELSE ErrorText(failAt),
                    !.pc = IF failAt = 0 THEN "mark" ELSE "catch"]]
  /\ UNCHANGED <<now, isUsed, submissions, pass, overlaps, library>>

\* prisma.submission.update to SUBMITTED, then the 200 response.
SubmitMark(s) ==
  /\ sreq[s].pc = "mark"
  /\ submissions' = [submissions EXCEPT ![sreq[s].sub] = InitialSuccess(@, sreq[s].wr)]
  /\ sreq' = [sreq EXCEPT ![s] = Finish(@, Received)]
  /\ UNCHANGED <<now, isUsed, pass, created, overlaps, library>>

\* The catch block: prisma.submission.update to FAILED, then the 502 response.
SubmitCatch(s) ==
  /\ sreq[s].pc = "catch"
  /\ submissions' = [submissions EXCEPT ![sreq[s].sub] = InitialFailure(@, sreq[s].err)]
  /\ sreq' = [sreq EXCEPT ![s] = Finish(@, UpstreamFailureBody(sreq[s].err))]
  /\ UNCHANGED <<now, isUsed, pass, created, overlaps, library>>

\* ----------------------------------------------------- public form fetch
\* forms/[token] route: notAvailableResponse, and the 200 answer that carries
\* the PublicFormConfig.
NotAvailable == "404 This form is not available."
FormConfig == "200 PublicFormConfig"

\* What the form-fetch handler answers from each of its four checks.
FormRejection(case) ==
  CASE case = "missing"  -> NotAvailable
    [] case = "inactive" -> NotAvailable
    [] case = "spent"    -> NotAvailable
    [] case = "expired"  -> NotAvailable

\* GET /api/v1/public/forms/[token]: prisma.formUrl.findUnique, the four
\* checks, the answer.  It reads the database and writes nothing.  The guest
\* asks fewer than the 30 times a minute the route's rate limiter admits.
GetForm(token) ==
  /\ fetched' =
       [ token |-> token,
         resp |-> IF LinkCase(token) # "none"
                    THEN FormRejection(LinkCase(token)) ELSE FormConfig ]
  /\ UNCHANGED <<now, pipeline, cmp, limiter, engine, dynamicForm, logic, concurrent>>

\* -------------------------------------------------------------- retry batch
\* A Submission row as the batch query returns it (the fields the loop reads).
Snapshot(id) ==
  [ id |-> id, retryCount |-> submissions[id].retryCount,
    cmpWorkRequestId |-> submissions[id].cmpWorkRequestId ]

\* The rows the batch query selects at clock reading `at`.
Selected(at) ==
  { Snapshot(i) : i \in { j \in DOMAIN submissions : Eligible(submissions[j], at) } }

\* The handler reads the clock and prisma.submission.findMany returns.  With
\* nothing selected it answers {processed: 0, ...} at once.  The invocation
\* started while none is running is p1.
RetryScan(p) ==
  /\ pass[p].pc = "idle"
  /\ IF Selected(now) = {}
       THEN UNCHANGED <<pass, overlaps>>
       ELSE /\ IF \E q \in Passes : pass[q].pc # "idle"
                 THEN overlaps < MaxOverlaps /\ overlaps' = overlaps + 1
                 ELSE p = "p1" /\ overlaps' = overlaps
            /\ pass' = [pass EXCEPT ![p] =
                 [IdlePass EXCEPT !.pc = "loop", !.batch = Selected(now),
                                  !.processed = Cardinality(Selected(now))]]
  /\ UNCHANGED <<now, isUsed, submissions, sreq, created, library>>

\* The loop takes the next row: prisma.submission.update to RETRYING.
RetryBegin(p) ==
  /\ pass[p].pc = "loop"
  /\ \E snap \in pass[p].batch :
       /\ submissions' = [submissions EXCEPT ![snap.id] =
            [@ EXCEPT !.status = "RETRYING"]]
       /\ pass' = [pass EXCEPT ![p] =
            [@ EXCEPT !.batch = @ \ {snap}, !.cur = snap, !.pc = "remote"]]
  /\ UNCHANGED <<now, isUsed, sreq, created, overlaps, library>>

\* The try block from there to its database update: the credential check
\* throws, or a row that already has a work request id skips creation, or the
\* client is built and createWorkRequest runs until one of its calls throws.
RetryRemote(p, failAt) ==
  /\ pass[p].pc = "remote"
  /\ LET snap == pass[p].cur
     IN IF ~FormUrls[submissions[snap.id].urlId].credentialActive
          THEN /\ failAt = 0
               /\ pass' = [pass EXCEPT ![p] =
                    [@ EXCEPT !.pc = "catch", !.err = NoCredential]]
               /\ UNCHANGED created
          ELSE IF snap.cmpWorkRequestId # NULL
          THEN /\ failAt = 0
               /\ pass' = [pass EXCEPT ![p] =
                    [@ EXCEPT !.pc = "mark", !.wr = snap.cmpWorkRequestId]]
               /\ UNCHANGED created
          ELSE /\ failAt <= CREATE_CALL
               /\ created' = RemoteCreate(snap.id, failAt)
               /\ pass' = [pass EXCEPT ![p] =
                    [@ EXCEPT !.wr = IF failAt = 0 THEN created'[snap.id] ELSE NULL,
                       !.err = IF failAt = 0 THEN "null" ELSE ErrorText(failAt),
                       !.pc = IF failAt = 0 THEN "mark" ELSE "catch"]]
  /\ UNCHANGED <<now, isUsed, submissions, sreq, overlaps, library>>

\* The handler's locals after one row's outcome is written: the loop goes on,
\* or, the batch being empty, the handler answers
\* {processed, succeeded, failed} and is gone.
AfterRowAbortsOnFailure(r, succeeded, failed) ==
  IF r.batch = {} \/ failed > 0
    THEN IdlePass
    ELSE [r EXCEPT !.pc = "loop", !.cur = NoSnap, !.wr = NULL, !.err = "null",
                   !.succeeded = @ + succeeded, !.failed = @ + failed]

AfterRow(r, succeeded, failed) ==
  IF r.batch = {}
    THEN IdlePass
    ELSE [r EXCEPT !.pc = "loop", !.cur = NoSnap, !.wr = NULL, !.err = "null",
                   !.succeeded = @ + succeeded, !.failed = @ + failed]

\* The body the handler answers with when the row just done was the last.
RetryResponse(r, succeeded, failed) ==
  [ processed |-> r.processed, succeeded |-> r.succeeded + succeeded,
    failed |-> r.failed + failed ]

\* prisma.submission.update to SUBMITTED; succeeded += 1.
RetryMark(p) ==
  /\ pass[p].pc = "mark"
  /\ submissions' = [submissions EXCEPT ![pass[p].cur.id] =
       RetrySuccess(@, pass[p].wr)]
  /\ pass' = [pass EXCEPT ![p] = AfterRow(@, 1, 0)]
  /\ UNCHANGED <<now, isUsed, sreq, created, overlaps, library>>

\* The catch block: prisma.submission.update to FAILED with the new retry
\* count and schedule; failed += 1.
RetryCatch(p) ==
  /\ pass[p].pc = "catch"
  /\ submissions' = [submissions EXCEPT ![pass[p].cur.id] =
       RetryFailure(@, pass[p].cur, pass[p].err)]
  /\ pass' = [pass EXCEPT ![p] = AfterRow(@, 0, 1)]
  /\ UNCHANGED <<now, isUsed, sreq, created, overlaps, library>>

\* -------------------------------------------------------------- environment
\* The instants at which a clock reading can change what a handler does: a
\* scheduled retry falls due, a link's expiry has just passed.
Instants ==
  { submissions[i].nextRetryAt : i \in DOMAIN submissions }
    \cup { FormUrls[t].expiresAt + 1 : t \in { u \in Tokens : FormUrls[u].expiresAt # NULL } }

\* Time passes, up to one of those instants no later than horizon.
Tick(horizon) ==
  /\ \E t \in Instants : t > now /\ t <= horizon /\ now' = t
  /\ UNCHANGED <<isUsed, submissions, sreq, pass, created, overlaps, library>>

\* The Node process dies and is started again: every handler in flight is
\* gone with its locals, its guest gets no answer; the database and the remote
\* system keep what was written.
NoAnswer == "none"

Crash ==
  /\ \/ \E s \in Requests : sreq[s].pc \notin {"new", "done"}
     \/ \E p \in Passes : pass[p].pc # "idle"
  /\ sreq' = [s \in Requests |->
       IF sreq[s].pc \in {"new", "done"} THEN sreq[s] ELSE Finish(sreq[s], NoAnswer)]
  /\ pass' = [p \in Passes |-> IdlePass]
  /\ UNCHANGED <<now, isUsed, submissions, created, overlaps, library>>

\* One step of the system with guest requests 1..submits and the clock
\* running to horizon.
NextWithin(submits, horizon) ==
  \/ \E s \in 1..submits, token \in TokenInputs : SubmitLookup(s, token)
  \/ \E s \in Requests : SubmitFlip(s)
  \/ \E s \in Requests, title \in TitleInputs : SubmitPersist(s, title)
  \/ \E s \in Requests, files \in 0..MaxFiles,
        failAt \in 0..(CREATE_CALL + MaxFiles) : SubmitRemote(s, files, failAt)
  \/ \E s \in Requests : SubmitMark(s)
  \/ \E s \in Requests : SubmitCatch(s)
  \/ \E p \in Passes : RetryScan(p)
  \/ \E p \in Passes : RetryBegin(p)
  \/ \E p \in Passes, failAt \in 0..CREATE_CALL : RetryRemote(p, failAt)
  \/ \E p \in Passes : RetryMark(p)
  \/ \E p \in Passes : RetryCatch(p)
  \/ Tick(horizon)

\* Guest submits and retry batches interleaving during the first minute: the
\* initial attempts and the first retry.
Next == NextWithin(MaxSubmits, ShortHorizonMs)

Spec == Init /\ [][Next]_vars

\* One submission followed through its whole retry budget.
NextBudget == NextWithin(1, LongHorizonMs)

SpecBudget == Init /\ [][NextBudget]_vars

\* The handlers run on: the event loop resumes every handler whose await has
\* settled, the cron job keeps firing, and time passes.
HandlersRunOn ==
  /\ WF_vars(Tick(LongHorizonMs))
  /\ \A s \in Requests :
       /\ WF_vars(SubmitFlip(s))
       /\ WF_vars(\E title \in TitleInputs : SubmitPersist(s, title))
       /\ WF_vars(\E files \in 0..MaxFiles, failAt \in 0..(CREATE_CALL + MaxFiles) :
                    SubmitRemote(s, files, failAt))
       /\ WF_vars(SubmitMark(s))
       /\ WF_vars(SubmitCatch(s))
  /\ \A p \in Passes :
       /\ WF_vars(RetryScan(p))
       /\ WF_vars(RetryBegin(p))
       /\ WF_vars(\E failAt \in 0..CREATE_CALL : RetryRemote(p, failAt))
       /\ WF_vars(RetryMark(p))
       /\ WF_vars(RetryCatch(p))

\* One submission and the retry batches, with no crash, running on.
SpecFair == Init /\ [][NextBudget]_vars /\ HandlersRunOn

\* The same with the process crashing at any moment.
NextCrash == NextBudget \/ Crash

SpecCrash == Init /\ [][NextCrash]_vars /\ HandlersRunOn

\* Retry batches that never overlap (each has returned before the cron job
\* fires again), over the rows that valid submits without files leave behind.
NextBatch ==
  \/ \E s \in Requests, token \in {"open", "nocred"} : SubmitLookup(s, token)
  \/ \E s \in Requests : SubmitPersist(s, <<"a">>)
  \/ \E s \in Requests, failAt \in 0..CREATE_CALL : SubmitRemote(s, 0, failAt)
  \/ \E s \in Requests : SubmitMark(s)
  \/ \E s \in Requests : SubmitCatch(s)
  \/ RetryScan("p1")
  \/ RetryBegin("p1")
  \/ \E failAt \in 0..CREATE_CALL : RetryRemote("p1", failAt)
  \/ RetryMark("p1")
  \/ RetryCatch("p1")
  \/ Tick(ShortHorizonMs)

SpecBatch == Init /\ [][NextBatch]_vars

\* The public submit handler alone: concurrent guest requests, no retry batch,
\* the clock running until the timed link has expired.
NextSubmit ==
  \/ \E s \in Requests, token \in TokenInputs : SubmitLookup(s, token)
  \/ \E s \in Requests : SubmitFlip(s)
  \/ \E s \in Requests, title \in TitleInputs : SubmitPersist(s, title)
  \/ \E s \in Requests, files \in 0..MaxFiles,
        failAt \in 0..(CREATE_CALL + MaxFiles) : SubmitRemote(s, files, failAt)
  \/ \E s \in Requests : SubmitMark(s)
  \/ \E s \in Requests : SubmitCatch(s)
  \/ Tick(ExpiresAtMs + 1)

SpecSubmit == Init /\ [][NextSubmit]_vars

\* The shareable links under guests who fetch forms and submit them (valid
\* data, no files, the CMP answering): links get spent and expire.
NextLinks ==
  \/ \E token \in TokenInputs : GetForm(token)
  \/ \E s \in Requests, token \in TokenInputs : SubmitLookup(s, token)
  \/ \E s \in Requests : SubmitFlip(s)
  \/ \E s \in Requests : SubmitPersist(s, <<"a">>)
  \/ \E s \in Requests : SubmitRemote(s, 0, 0)
  \/ \E s \in Requests : SubmitMark(s)
  \/ Tick(ExpiresAtMs + 1)

SpecLinks == Init /\ [][NextLinks]_vars

\* The form engine under its callers.
NextEngine ==
  \/ /\ engine.op = "none"
     /\ \E fields \in FieldListInputs, values \in FormDataInputs,
           visibleFields \in SUBSET {"f1", "f2"} : Validate(fields, values, visibleFields)
  \/ /\ engine.op = "none"
     /\ \E fields \in FieldListInputs, values \in FormDataInputs,
           visibleFields \in SUBSET {"f1", "f2"} : Serialize(fields, values, visibleFields)
  \/ Returned

SpecEngine == Init /\ [][NextEngine]_vars

\* A guest filling in a form that has conditional logic.
NextForm ==
  \/ /\ ~dynamicForm.mounted
     /\ \E fields \in FormInputs : DynamicForm(fields)
  \/ \E identifier \in DOMAIN ChangeInputs :
       \E value \in ChangeInputs[identifier] : handleFieldChange(identifier, value)

SpecForm == Init /\ [][NextForm]_vars

\* computeConditionalLogic called with the fields of a form in any of the
\* orders a caller may hold them in.
NextLogic ==
  \E fields \in FormInputs, values \in FormValueInputs :
    CallComputeConditionalLogic(fields, values)

SpecLogic == Init /\ [][NextLogic]_vars

\* A handler's use of the CMP client.
NextClient ==
  \/ createCmpClientFromCredential
  \/ \E in1, in2 \in AttemptInputs : createWorkRequest(in1, in2)
  \/ \E in1, in2 \in AttemptInputs, meta \in MetaInputs : uploadUrl(in1, in2, meta)
  \/ \E status \in Statuses : uploadToPresignedUrl(status)
  \/ \E in1, in2 \in AttemptInputs : uploadAttachment(in1, in2)
  \/ getTemplates
  \/ \E in1, in2 \in AttemptInputs, size \in PageSizes, next \in NextInputs :
        fetchAllPages(in1, in2, size, next)
  \/ ClientTick

\* Every request of the pagination loop gets its answer.
SpecClient ==
  /\ Init /\ [][NextClient]_vars
  /\ WF_vars(\E in1, in2 \in AttemptInputs, size \in PageSizes, next \in NextInputs :
               fetchAllPages(in1, in2, size, next))

\* Requests of several callers on one client, the network answering each in
\* its own time.
NextCallers ==
  \/ \E c \in Callers : CallerRequest(c)
  \/ \E c \in Callers, ok \in BOOLEAN : FetchTokenReturns(c, ok, 3600)
  \/ \E c \in Callers : GetTokenReturns(c)
  \/ \E c \in Callers, status \in {200, 401} : ApiResponds(c, status)

SpecCallers == Init /\ [][NextCallers]_vars

\* Callers of one CmpRateLimiter.
NextBucket ==
  \/ acquire
  \/ \E i \in 1..MaxAcquires : Wakes(i)
  \/ BucketTick

SpecBucket == Init /\ [][NextBucket]_vars

\* The rate limiter under the requests of two addresses.
NextLimiter == \E ip \in Keys, gap \in CheckGapsMs : Check(ip, gap)

SpecLimiter == Init /\ [][NextLimiter]_vars

\* ------------------------------------------------------------------ claims
Rows == DOMAIN submissions

\* The backoff schedule as the documentation states it: 1 min, 5 min, 15 min,
\* 1 hr, 4 hr.
Schedule == <<1 * 60 * 1000, 5 * 60 * 1000, 15 * 60 * 1000, 60 * 60 * 1000, 4 * 60 * 60 * 1000>>

\* C1: in every reachable state a Submission is SUBMITTED if and only if its
\* cmpWorkRequestId is set and its nextRetryAt is null.
C1_SubmittedIffRemoteId ==
  \A i \in Rows :
    (submissions[i].status = "SUBMITTED")
      <=> (submissions[i].cmpWorkRequestId # NULL /\ submissions[i].nextRetryAt = NULL)

\* C2: in every reachable state, a FAILED or RETRYING Submission has
\* retryCount >= 5 if and only if its nextRetryAt is null.
C2_ExhaustedIffNoSchedule ==
  \A i \in Rows :
    submissions[i].status \in {"FAILED", "RETRYING"}
      => ((submissions[i].retryCount >= MAX_RETRIES) <=> (submissions[i].nextRetryAt = NULL))

\* C3: a Submission's status moves only along PENDING -> SUBMITTED,
\* PENDING -> FAILED, FAILED -> RETRYING, RETRYING -> SUBMITTED and
\* RETRYING -> FAILED, and a SUBMITTED row is never changed again.
StatusMoves ==
  { <<"PENDING", "SUBMITTED">>, <<"PENDING", "FAILED">>, <<"FAILED", "RETRYING">>,
    <<"RETRYING", "SUBMITTED">>, <<"RETRYING", "FAILED">> }

C3_StatusMoves ==
  [][\A i \in Rows :
       /\ submissions'[i].status # submissions[i].status
            => <<submissions[i].status, submissions'[i].status>> \in StatusMoves
       /\ submissions[i].status = "SUBMITTED" => submissions'[i] = submissions[i]]_vars

\* C4: of the submits racing on one single-use link at most one flips isUsed
\* and goes on, every other one that finishes is answered "unavailable" and
\* makes no row, so the link has at most one Submission row, the winner's.
OneTimeTokens == { t \in Tokens : FormUrls[t].accessType = "ONE_TIME_URL" }

Arrived(t) == { s \in Requests : sreq[s].pc # "new" /\ sreq[s].token = t }

Winners(t) == { s \in Arrived(t) : sreq[s].won }

C4_SingleUseLink ==
  \A t \in OneTimeTokens :
    /\ Cardinality(Winners(t)) <= 1
    /\ isUsed[t] <=> Winners(t) # {}
    /\ \A s \in Arrived(t) \ Winners(t) :
         /\ sreq[s].sub = 0
         /\ sreq[s].pc \in {"flip", "done"}
         /\ sreq[s].pc = "done" => sreq[s].resp = Unavailable
    /\ Cardinality({ i \in Rows : submissions[i].urlId = t }) <= 1
    /\ \A i \in Rows : submissions[i].urlId = t
         => \E s \in Winners(t) : sreq[s].sub = i

\* A second request has read the link as unused and waits to flip it, the
\* first one has flipped it and made its row.
C4_Witness ==
  \E s1, s2 \in Requests :
    /\ s1 # s2
    /\ sreq[s1].token = "one" /\ sreq[s1].won /\ sreq[s1].sub # 0
    /\ sreq[s2].token = "one" /\ sreq[s2].pc = "flip"

\* C5: over the initial submit and all retries, at most one remote work
\* request is created for one Submission.
C5_OneWorkRequest == \A i \in Rows : created[i] <= 1

\* C6: a row whose retryCount has reached 5 is FAILED with nextRetryAt null,
\* and from then on no retry batch changes it.
C6_ExhaustedIsFinal ==
  [][\A i \in Rows :
       submissions[i].retryCount = MAX_RETRIES
         => /\ submissions[i].status = "FAILED"
            /\ submissions[i].nextRetryAt = NULL
            /\ submissions'[i] = submissions[i]]_vars

\* C7: the failed initial submit schedules the first retry 1 min ahead; a
\* failed retry writes FAILED with the new count k = (count the batch read)
\* + 1 and, for k < 5, nextRetryAt = now + schedule[k] (0-based, the new
\* count), for k = 5 no nextRetryAt; the schedule strictly increases.
C7_BackoffByNewCount ==
  [][/\ \A j \in 1..(Len(Schedule) - 1) : Schedule[j] < Schedule[j + 1]
     /\ \A s \in Requests :
          sreq[s].pc = "catch" /\ sreq'[s].pc = "done"
            => submissions'[sreq[s].sub].nextRetryAt = now + Schedule[1]
     /\ \A p \in Passes :
          pass[p].pc = "catch" /\ pass'[p].pc # "catch"
            => LET row == submissions'[pass[p].cur.id]
                   k == row.retryCount
               IN /\ row.status = "FAILED"
                  /\ k = pass[p].cur.retryCount + 1
                  /\ k < 5 => row.nextRetryAt = now + Schedule[k + 1]
                  /\ k >= 5 => row.nextRetryAt = NULL]_vars

\* The fourth failed retry has just been written: the wait is 4 hr.
C7_Witness ==
  \E i \in Rows :
    /\ submissions[i].status = "FAILED"
    /\ submissions[i].retryCount = 4
    /\ submissions[i].nextRetryAt = now + 4 * 60 * 60 * 1000

\* C8: whichever remote step of the initial submit fails, the handler's catch
\* block leaves the row FAILED with retryCount 0, an errorMessage and
\* nextRetryAt = now + 60 s, and answers 502; a try block that did not run
\* every call to its end never reaches the success update.
C8_InitialFailure ==
  [][\A s \in Requests :
       /\ sreq[s].pc = "remote" /\ sreq'[s].pc # "remote"
            => \/ /\ sreq'[s].pc = "mark"
                  /\ FormUrls[sreq[s].token].credentialActive
                  /\ sreq'[s].calls = CREATE_CALL + sreq'[s].files
               \/ /\ sreq'[s].pc = "catch"
                  /\ sreq'[s].err # "null"
       /\ sreq[s].pc = "catch" /\ sreq'[s].pc # "catch"
            => /\ sreq'[s].resp = BadGateway
               /\ submissions'[sreq[s].sub].status = "FAILED"
               /\ submissions'[sreq[s].sub].retryCount = 0
               /\ submissions'[sreq[s].sub].errorMessage = sreq[s].err
               /\ submissions'[sreq[s].sub].errorMessage # "null"
               /\ submissions'[sreq[s].sub].nextRetryAt = now + 60 * 1000]_vars

\* A submit whose upload threw after the work request was created has
\* answered 502 and left its row FAILED, due in 60 s.
C8_Witness ==
  \E s \in Requests :
    /\ sreq[s].resp = BadGateway
    /\ sreq[s].calls = CREATE_CALL + 1
    /\ submissions[sreq[s].sub].status = "FAILED"
    /\ submissions[sreq[s].sub].retryCount = 0
    /\ submissions[sreq[s].sub].nextRetryAt = now + 60 * 1000

\* C9: a submit rejected by validation has written nothing to the store (no
\* Submission row, no FormUrl update) and has made no remote call.
C9_RejectedWritesNothing ==
  \A s \in Requests :
    sreq[s].resp = ValidationFailed
      => sreq[s].sub = 0 /\ ~sreq[s].won /\ sreq[s].calls = 0

\* C10: a submit that has issued a remote call, or is about to, has its row in
\* the store, and that row is still the PENDING, retryCount 0 row it created
\* until the handler writes the outcome.
C10_RowBeforeRemote ==
  \A s \in Requests :
    /\ sreq[s].calls > 0 => sreq[s].sub \in Rows
    /\ sreq[s].pc \in {"remote", "mark", "catch"}
         => /\ sreq[s].sub \in Rows
            /\ submissions[sreq[s].sub].urlId = sreq[s].token
            /\ submissions[sreq[s].sub].status = "PENDING"
            /\ submissions[sreq[s].sub].retryCount = 0

\* The token fetch of a submit has thrown: the PENDING row is in the store.
C10_Witness ==
  \E s \in Requests :
    /\ sreq[s].pc = "catch" /\ sreq[s].calls = 1
    /\ submissions[sreq[s].sub].status = "PENDING"

\* C11: what the guest is told matches the row as the handler leaves it.  The 200 answer with the
\* submissionId is given only for a row that is SUBMITTED with its
\* cmpWorkRequestId set; a request whose remote attempt threw is answered the
\* one fixed 502 body, whatever the message of the error, and that message is
\* in the row's errorMessage only.
ErrorTexts == {NoCredential, TokenError, RemoteError, UploadError}

C12_BatchIndependent ==
  [][\A p \in Passes :
       pass[p].pc \in {"mark", "catch"} /\ pass'[p] # pass[p]
         => LET failed == IF pass[p].pc = "catch" THEN 1 ELSE 0
                body == RetryResponse(pass[p], 1 - failed, failed)
            IN /\ pass[p].processed
                    = Cardinality(pass[p].batch) + pass[p].succeeded + pass[p].failed + 1
               /\ pass[p].batch # {}
                    => /\ pass'[p].pc = "loop"
                       /\ pass'[p].batch = pass[p].batch
                       /\ pass'[p].processed = pass[p].processed
                       /\ pass'[p].succeeded + pass'[p].failed
                            = pass[p].succeeded + pass[p].failed + 1
               /\ pass[p].batch = {}
                    => /\ pass'[p].pc = "idle"
                       /\ body.processed = body.succeeded + body.failed]_vars

\* A batch of two rows: the first one's retry failed, the second one's
\* succeeded and is about to be written.
C12_Witness ==
  \E p \in Passes :
    /\ pass[p].pc = "mark" /\ pass[p].batch = {}
    /\ pass[p].processed = 2 /\ pass[p].failed = 1

\* C13: a row left PENDING by a handler that is gone (the process crashed
\* after the row was persisted) is picked up by a later retry batch, which
\* moves it out of PENDING.
Orphaned(i) ==
  /\ i \in Rows
  /\ submissions[i].status = "PENDING"
  /\ \A s \in Requests : sreq[s].sub = i => sreq[s].pc = "done"

C13_PendingPickedUp ==
  \A i \in Requests :
    Orphaned(i) ~> (i \in Rows /\ submissions[i].status # "PENDING")

\* C14: with no crash, batches that keep coming and time that passes, every
\* FAILED row with retryCount < 5 eventually is SUBMITTED or is exhausted
\* (FAILED, retryCount = 5, nextRetryAt null).
Exhausted(i) ==
  /\ submissions[i].status = "FAILED"
  /\ submissions[i].retryCount = MAX_RETRIES
  /\ submissions[i].nextRetryAt = NULL

C14_FailedEventuallySettles ==
  \A i \in Requests :
    (i \in Rows /\ submissions[i].status = "FAILED"
       /\ submissions[i].retryCount < MAX_RETRIES)
      ~> (i \in Rows /\ (submissions[i].status = "SUBMITTED" \/ Exhausted(i)))

\* A row that failed three times has been retried with success.
C14_Witness ==
  \E i \in Rows :
    /\ submissions[i].status = "SUBMITTED"
    /\ submissions[i].retryCount = 3

\* C15: one CmpClient.request calls the API at most twice; it calls a second
\* time only after a first 401, and then the token is invalidated and a new
\* token fetched before the second call; a 401 on the second call is thrown,
\* not retried; any other non-2xx answer is thrown without a retry.
IsApiEvent(ev) == ev.e = "api"

ApiCalls(trace) == SelectSeq(trace, IsApiEvent)

C15_OneRetryOn401 ==
  cmp.op = "request"
    => LET trace == cmp.trace
           calls == ApiCalls(trace)
       IN /\ Len(calls) <= 2
          /\ Len(calls) = 2
               => /\ calls[1].status = 401
                  /\ \E i, j, k, l \in DOMAIN trace :
                       /\ i < j /\ j < k /\ k < l
                       /\ trace[i] = ApiEvent(401)
                       /\ trace[j] = InvalidateEvent
                       /\ trace[k] = FetchEvent(TRUE)
                       /\ trace[l] = calls[2]
                  /\ calls[2].status = 401 => cmp.error = RemoteError
          /\ Len(calls) >= 1 /\ calls[1].status # 401 /\ ~ResponseOk(calls[1].status)
               => Len(calls) = 1 /\ cmp.error = RemoteError
          /\ Len(calls) >= 1 /\ calls[1].status = 401 /\ Len(calls) = 1
               => cmp.error = TokenError
          /\ cmp.error = "null"
               <=> Len(calls) >= 1 /\ ResponseOk(calls[Len(calls)].status)

\* A request was answered 401 twice: two calls, a token fetched in between,
\* and the error thrown.
C15_Witness ==
  /\ cmp.op = "request"
  /\ Len(ApiCalls(cmp.trace)) = 2
  /\ ApiCalls(cmp.trace)[2].status = 401
  /\ cmp.error = RemoteError

\* C16: once a token has been fetched for the credential, a later request
\* made while that token is more than 5 minutes from expiry, no 401 having
\* been seen, starts with the cached token: its first call is not a token
\* fetch.
C16_TokenReused ==
  cmp.cached /\ cmp.trace # <<>> => cmp.trace[1].e # "fetchToken"

\* C17: fetchAllPages terminates whatever the pages are, a cyclic next link
\* and pages without items included: once started, the loop ends.
C17_PagesTerminate == (cmp.pc = "pages") ~> (cmp.pc # "pages")

\* C18: uploadAttachment does its steps in the order upload-url, presigned,
\* attachments; the multipart body of step 2 has every meta field before the
\* file field; a step is made only if every step before it succeeded, step 3
\* only after a 2xx answer (204 included) to step 2; a failed step throws.
UploadOrder == <<"upload-url", "presigned", "attachments">>

C18_UploadInOrder ==
  cmp.op = "upload"
    => LET steps == cmp.steps
           n == Len(steps)
       IN /\ n >= 1 /\ n <= 3
          /\ \A k \in 1..n : steps[k].step = UploadOrder[k]
          /\ \A k \in 1..(n - 1) : steps[k].ok
          /\ n >= 2
               => LET form == steps[2].form
                  IN /\ form[Len(form)] = "file"
                     /\ \A k \in 1..(Len(form) - 1) : form[k] # "file"
                     /\ Len(form) >= 2
          /\ n = 3 => steps[2].status >= 200 /\ steps[2].status <= 299
          /\ ~steps[n].ok => cmp.pc = "idle" /\ cmp.error # "null"
          /\ cmp.pc = "idle" /\ cmp.error = "null" => n = 3 /\ steps[3].ok

\* An upload whose step 2 was answered 204 has made step 3 and returned.
C18_Witness ==
  /\ cmp.op = "upload" /\ cmp.pc = "idle" /\ cmp.error = "null"
  /\ Len(cmp.steps) = 3
  /\ cmp.steps[2].status = 204
  /\ cmp.steps[2].form = <<"policy", "key", "file">>

\* C19: per key, a window runs from a check that finds none open (the first
\* check, or one at or after the reset of the window before) for windowMs;
\* the first maxRequests checks of a window are allowed, every further one is
\* denied with retryAfter = the whole seconds, rounded up, until the window
\* resets, which is at least 1.
RECURSIVE Opener(_, _)
Opener(h, k) ==
  IF k = 1 THEN 1
  ELSE LET o == Opener(h, k - 1)
       IN IF h[k].at >= h[o].at + windowMs THEN k ELSE o

C20_SlidingWindow ==
  \A ip \in Keys :
    LET h == limiter.log[ip]
    IN \A i \in DOMAIN h :
         Cardinality({ j \in DOMAIN h :
                        /\ j >= i /\ h[j].allowed
                        /\ h[j].at < h[i].at + 60000 }) <= 5

\* C29: a process that dies in the middle of a retry (the row flipped to
\* RETRYING, its outcome not yet written) leaves the row RETRYING for good: no
\* later retry batch takes the row up again.
Stranded(i) ==
  /\ i \in Rows
  /\ submissions[i].status = "RETRYING"
  /\ \A p \in Passes : pass[p].pc = "idle"

C29_StaysRetrying ==
  \A i \in Requests :
    [](Stranded(i)
         => [](/\ i \in Rows
               /\ submissions[i].status = "RETRYING"
               /\ \A p \in Passes : pass[p].cur.id # i))

\* C30: the token manager goes NO_TOKEN -> VALID -> NO_TOKEN.  A request's
\* getToken makes no fetch exactly when a token is cached and the clock is
\* more than 5 minutes before its expiresAt; otherwise it makes one fetch,
\* which stores the new token, or fails: then the request throws the token
\* error and the cache is as it was.  invalidate empties the cache, and the
\* getToken after it fetches.
TokenValid(tm) == tm.accessToken # "null" /\ now < tm.expiresAt - 5 * 60 * 1000

C30_TokenStateMachine ==
  [][ (cmp'.op = "request" /\ cmp' # cmp /\ now' = now) =>
        LET trace == cmp'.trace
        IN /\ trace # <<>>
           /\ (trace[1].e = "api") <=> TokenValid(cmp.tm)
           /\ ~TokenValid(cmp.tm) =>
                /\ trace[1].e = "fetchToken"
                /\ Len(trace) >= 2 => trace[2].e = "api"
                /\ trace[1] = FetchEvent(FALSE) =>
                     /\ Len(trace) = 1
                     /\ cmp'.error = TokenError
                     /\ cmp'.tm = cmp.tm
                /\ trace = <<FetchEvent(TRUE), ApiEvent(200)>> =>
                     /\ cmp'.tm.accessToken = "access_token"
                     /\ cmp'.tm.expiresAt > now
                     /\ cmp'.error = "null"
           /\ \A k \in DOMAIN trace :
                trace[k] = InvalidateEvent =>
                  /\ k < Len(trace)
                  /\ trace[k + 1].e = "fetchToken"
                  /\ trace[k + 1] = FetchEvent(FALSE) =>
                       cmp'.tm = [accessToken |-> "null", expiresAt |-> 0]
    ]_vars

\* A request made later with the cached token: one API call and no fetch.
C30_Witness ==
  /\ cmp.op = "request"
  /\ cmp.trace = <<ApiEvent(200)>>
  /\ cmp.tm.accessToken = "access_token"
  /\ now > 0

\* C21: the submit endpoint answers one and the same response whether the
\* token does not exist, its form is inactive, the single-use link is spent or
\* the link is past expiry, and so does the form-fetch endpoint; none of these
\* rejections writes: the used flags and the Submission table are as before.
LinkCases == {"missing", "inactive", "spent", "expired"}

C21_RejectionsAlike ==
  [][ /\ \A s \in Requests :
           (sreq[s].pc = "new" /\ sreq'[s].pc = "done") =>
             /\ LinkCase(sreq'[s].token) \in LinkCases
             /\ sreq'[s].resp = "400 Invalid submission."
             /\ isUsed' = isUsed /\ submissions' = submissions
      /\ fetched' # fetched =>
           /\ LinkCase(fetched'.token) \in LinkCases
                => fetched'.resp = "404 This form is not available."
           /\ LinkCase(fetched'.token) \notin LinkCases
                => fetched'.resp # "404 This form is not available."
           /\ isUsed' = isUsed /\ submissions' = submissions
    ]_vars

\* The form of a spent single-use link was asked for and refused, and a
\* submit on the expired link was refused.
C21_Witness ==
  /\ isUsed["one"]
  /\ fetched = [token |-> "one", resp |-> NotAvailable]
  /\ \E s \in Requests :
       /\ sreq[s].pc = "done" /\ sreq[s].token = "timed"
       /\ sreq[s].resp = Unavailable
       /\ sreq[s].sub = 0

\* C22: validateAllFields reports only fields of visibleSet: the keys of the
\* error map are in visibleSet, and every error it reports is the error the
\* same call with all fields visible reports for that field; a required field
\* left empty is reported when all fields are visible, hidden or not.
ServerErrors ==
  validateAllFields(engine.fields, engine.values,
                    { engine.fields[i].identifier : i \in DOMAIN engine.fields })

Validated == {"text", "text_area", "richtext", "brief", "checkbox",
              "radio_button", "dropdown", "label", "date", "file",
              "percentage_number", "currency_number"}

C22_VisibleOnly ==
  engine.op = "validateAllFields" =>
    /\ DOMAIN engine.errors \subseteq engine.visibleFields
    /\ \A k \in DOMAIN engine.errors :
         k \in DOMAIN ServerErrors /\ ServerErrors[k] = engine.errors[k]
    /\ \A i \in DOMAIN engine.fields :
         LET field == engine.fields[i]
         IN (/\ field.is_required
             /\ field.type \in Validated
             /\ engine.values[field.identifier] = JsUndefined)
              => field.identifier \in DOMAIN ServerErrors

\* The required field f1 is hidden and empty: the call with the visible set
\* reports nothing, the call with all fields visible reports f1.
C22_Witness ==
  /\ engine.op = "validateAllFields"
  /\ engine.visibleFields = {"f2"}
  /\ DOMAIN engine.errors = {}
  /\ DOMAIN ServerErrors = {"f1"}

\* C23: a field that is not required and whose value is empty (undefined,
\* null, the empty string, the empty array) has no error, whatever its kind,
\* the 14 kinds and an unknown one.
EmptyValues == { JsUndefined, JsNull, JsString(<<>>), JsArray(<<>>) }

C23_OptionalEmptyPasses ==
  engine.op = "validateAllFields" =>
    \A i \in DOMAIN engine.fields :
      LET field == engine.fields[i]
          value == engine.values[field.identifier]
      IN (~field.is_required /\ value \in EmptyValues)
           => /\ validateField(field, value) = NoError
              /\ field.identifier \notin DOMAIN engine.errors

\* An optional date field, visible, with the empty string: no error.
C23_Witness ==
  /\ engine.op = "validateAllFields"
  /\ Len(engine.fields) = 1
  /\ engine.fields[1].type = "date" /\ ~engine.fields[1].is_required
  /\ engine.values["f1"] = JsString(<<>>)
  /\ engine.visibleFields = {"f1"}
  /\ DOMAIN engine.errors = {}

\* C24: serializeFormData emits exactly one entry for every visible field of
\* a serialized kind and nothing else (nothing for file, instruction,
\* section, an unknown kind, or a field outside visibleSet), in ascending
\* sortOrder of the fields whatever the order of the field list given.
Serialized ==
  {"text", "text_area", "richtext", "brief", "checkbox", "radio_button",
   "dropdown", "label", "date", "percentage_number", "currency_number"}

FieldOf(identifier) ==
  CHOOSE field \in { engine.fields[i] : i \in DOMAIN engine.fields } :
    field.identifier = identifier

C24_SerializedInOrder ==
  engine.op = "serializeFormData" =>
    LET entries == engine.entries
    IN /\ \A k \in DOMAIN entries :
            /\ entries[k].identifier \in engine.visibleFields
            /\ entries[k].type \in Serialized
       /\ \A i \in DOMAIN engine.fields :
            LET field == engine.fields[i]
            IN (field.identifier \in engine.visibleFields /\ field.type \in Serialized)
                 => Cardinality({ k \in DOMAIN entries :
                                    entries[k].identifier = field.identifier }) = 1
       /\ \A k, l \in DOMAIN entries :
            k < l => FieldOf(entries[k].identifier).sort_order
                       < FieldOf(entries[l].identifier).sort_order

\* C28: a percentage_number or currency_number is serialized as one string,
\* never a number: the decimal string of a numeric value, "0" for an absent
\* or non-numeric one; so a percentage_number that passes validation is
\* serialized as "0" or as the decimal string of a number in 0..100.
C28_NumbersAsStrings ==
  engine.op = "serializeFormData" =>
    \A k \in DOMAIN engine.entries :
      LET entry == engine.entries[k]
          field == FieldOf(entry.identifier)
          value == engine.values[entry.identifier]
      IN entry.type \in {"percentage_number", "currency_number"} =>
           /\ Len(entry.values) = 1
           /\ entry.values[1].t = "string"
           /\ value.t = "number" => entry.values[1].s = NumberToString(value.n)
           /\ value.t # "number" => entry.values[1].s = <<"0">>
           /\ (entry.type = "percentage_number" /\ validateField(field, value) = NoError)
                => \/ entry.values[1].s = <<"0">>
                   \/ \E n \in 0..100 : entry.values[1].s = NumberToString(n)

\* The rules of the mounted form with this action whose conditions all hold
\* of the form's values, each with the field it is attached to.
Firing(action) ==
  { sr \in UNION { { [source |-> dynamicForm.fields[f].identifier,
                      rule |-> dynamicForm.fields[f].logic_rules[r]] :
                       r \in DOMAIN dynamicForm.fields[f].logic_rules } :
                   f \in DOMAIN dynamicForm.fields } :
      /\ sr.rule.action = action
      /\ evaluateConditions(sr.rule, dynamicForm.values) }

\* The fields whose sort_order lies strictly between those of the fields S
\* and T of the mounted form; none when either is no field of the form.
Between(S, T) ==
  { dynamicForm.fields[g].identifier : g \in
      { h \in DOMAIN dynamicForm.fields :
          \E s, t \in DOMAIN dynamicForm.fields :
            /\ dynamicForm.fields[s].identifier = S
            /\ dynamicForm.fields[t].identifier = T
            /\ dynamicForm.fields[s].sort_order < dynamicForm.fields[h].sort_order
            /\ dynamicForm.fields[h].sort_order < dynamicForm.fields[t].sort_order } }

\* C25: jump_to.  The visible set computed for a form, whose fields are in
\* sort_order, is every field but those strictly between the source S and the
\* target T of a firing jump_to rule whose T comes after S: S and T of a lone
\* firing rule stay visible, and a rule whose target is before S, is S, or is
\* no field of the form hides nothing.
C25_JumpHidesBetween ==
  dynamicForm.mounted =>
    dynamicForm.prevResultRef.visibleFields =
      AllFieldIdentifiers(dynamicForm.fields)
        \ UNION { Between(sr.source, sr.rule.target_identifier) : sr \in Firing("jump_to") }

\* C25 witness: a jump_to rule on A to C fires in a mounted form, B is
\* hidden, and A, C and D are visible.
C25_Witness ==
  /\ dynamicForm.mounted
  /\ \E sr \in Firing("jump_to") : sr.source = "A" /\ sr.rule.target_identifier = "C"
  /\ dynamicForm.prevResultRef.visibleFields = {"A", "C", "D"}

\* The condition values of a rule, as a set.
ValuesOf(rule) ==
  UNION { { rule.conditions[c].values[v] : v \in DOMAIN rule.conditions[c].values } :
          c \in DOMAIN rule.conditions }

\* C26: show_values.  The allow-list computed for a target is the union of
\* the condition values of the firing show_values rules that target it, each
\* value once; a target no firing show_values rule has, has no allow-list.
C26_AllowListIsUnion ==
  dynamicForm.mounted =>
    \A target \in {"A", "B", "C", "D", "Z"} :
      LET rules == { sr \in Firing("show_values") : sr.rule.target_identifier = target }
          filteredChoices == dynamicForm.prevResultRef.filteredChoices
      IN IF rules = {}
           THEN target \notin DOMAIN filteredChoices
           ELSE /\ target \in DOMAIN filteredChoices
                /\ { filteredChoices[target][i] : i \in DOMAIN filteredChoices[target] }
                     = UNION { ValuesOf(sr.rule) : sr \in rules }
                /\ \A i, j \in DOMAIN filteredChoices[target] :
                     filteredChoices[target][i] = filteredChoices[target][j] => i = j

\* C26 witness: two show_values rules for C fire, one with the value x only
\* and one with the value y only, and the allow-list of C has both.
C26_Witness ==
  /\ dynamicForm.mounted
  /\ \E one, other \in Firing("show_values") :
       /\ one.rule.target_identifier = "C" /\ ValuesOf(one.rule) = { <<"x">> }
       /\ other.rule.target_identifier = "C" /\ ValuesOf(other.rule) = { <<"y">> }
  /\ "C" \in DOMAIN dynamicForm.prevResultRef.filteredChoices
  /\ Len(dynamicForm.prevResultRef.filteredChoices["C"]) = 2

\* C27: the form's state is never stale.  The visible set of the state is the
\* one computeConditionalLogic returns for the current values, and every
\* field offers the choices it would offer under the allow-lists
\* computeConditionalLogic returns for the current values: all of them where
\* it has no allow-list.
C27_StateNeverStale ==
  dynamicForm.mounted =>
    LET result == computeConditionalLogic(dynamicForm.fields, dynamicForm.values)
    IN /\ dynamicForm.visibleFields = result.visibleFields
       /\ \A f \in DOMAIN dynamicForm.fields :
            visibleChoices(dynamicForm.fields[f], dynamicForm.filteredChoices)
              = visibleChoices(dynamicForm.fields[f], result.filteredChoices)

\* C32: computeConditionalLogic walks the fields by ascending sort_order and
\* takes the indexes of a jump_to rule's source and target in that order:
\* called with the fields in any order, it returns what it returns for the
\* same fields sorted by sort_order.
C32_OrderOfFieldsIrrelevant ==
  logic.called =>
    logic.result =
      computeConditionalLogic(Sort(logic.fields, "sort_order"), logic.values)

\* The fields, each with its logic_rules in the opposite order.
RulesReversed(fields) ==
  [ f \in DOMAIN fields |->
      [ fields[f] EXCEPT !.logic_rules =
          [ r \in DOMAIN @ |-> @[Len(@) + 1 - r] ] ] ]

\* The fields that lie after the source of the rule and before its target
\* in the mounted form.
Range(sr) ==
  JumpHides(dynamicForm.fields,
            findIndex(dynamicForm.fields, sr.source, 1),
            findIndex(dynamicForm.fields, sr.rule.target_identifier, 1))

\* C33: within one recomputation visibility is the conjunction of all firing
\* rules.  A field is visible exactly when it is in the range of no firing
\* jump_to rule, so nothing a rule hides is visible in the result, whichever
\* rules came after it; a firing rule hides its range also when the field it
\* is attached to is itself hidden; and the visible set is the same when the
\* rules of every field are gone through in the opposite order.
C33_VisibilityIsConjunction ==
  dynamicForm.mounted =>
    LET visibleFields == dynamicForm.prevResultRef.visibleFields
    IN /\ \A id \in AllFieldIdentifiers(dynamicForm.fields) :
            id \in visibleFields <=> \A sr \in Firing("jump_to") : id \notin Range(sr)
       /\ \A sr \in Firing("jump_to") :
            sr.source \notin visibleFields => Range(sr) \cap visibleFields = {}
       /\ computeConditionalLogic(RulesReversed(dynamicForm.fields),
                                  dynamicForm.values).visibleFields = visibleFields

\* C33 witness: the rule on A that jumps to C fires and hides B, the rule on
\* the hidden B that jumps to D fires as well and hides C, and only A and D
\* are visible.
C33_Witness ==
  /\ dynamicForm.mounted
  /\ \E one, other \in Firing("jump_to") :
       /\ one.source = "A" /\ Range(one) = {"B"}
       /\ other.source = "B" /\ Range(other) = {"C"}
  /\ dynamicForm.prevResultRef.visibleFields = {"A", "D"}

\* The fields of the engine's call that take several selections.
MultiFields ==
  { engine.fields[i] : i \in
      { j \in DOMAIN engine.fields :
          \/ engine.fields[j].type = "checkbox"
          \/ /\ engine.fields[j].type \in {"dropdown", "label"}
             /\ engine.fields[j].is_multi_select } }

\* The elements of the array that are ids of choices the field declares.
Declared(field, value) ==
  { i \in DOMAIN value.a :
      /\ value.a[i].t = "string"
      /\ value.a[i].s \in { field.choices[c].id : c \in DOMAIN field.choices } }

\* C36: for a checkbox and for a multi-select dropdown or label, an array
\* with an element that is not the id of a declared choice gets the
\* invalid-selection error, required or not; an array of declared ids only,
\* not empty when the field is required, gets no error.
C36_UndeclaredIdRejected ==
  engine.op = "validateAllFields" =>
    \A field \in MultiFields :
      LET value == engine.values[field.identifier]
      IN (value.t = "array" /\ field.identifier \in engine.visibleFields) =>
           IF Declared(field, value) # DOMAIN value.a
             THEN /\ field.identifier \in DOMAIN engine.errors
                  /\ engine.errors[field.identifier]
                       = Message(field, "contains an invalid selection.")
             ELSE (value.a # <<>> \/ ~field.is_required)
                    => field.identifier \notin DOMAIN engine.errors

\* C36 witness: an optional checkbox, visible, with a declared id and an
\* undeclared one, has the invalid-selection error.
C36_Witness ==
  /\ engine.op = "validateAllFields"
  /\ \E field \in MultiFields :
       /\ field.type = "checkbox" /\ ~field.is_required
       /\ engine.values[field.identifier] = JsArray(<<JsString(<<"x">>), JsString(<<"q">>)>>)
       /\ field.identifier \in DOMAIN engine.errors

\* C37: a number given for a percentage_number field is accepted exactly
\* when it is from 0 to 100, both included, and for a currency_number field
\* exactly when it is 0 or more, required or not; a required field of either
\* kind with no value or with a value that is not a number is rejected.
C37_NumericBounds ==
  engine.op = "validateAllFields" =>
    \A i \in DOMAIN engine.fields :
      LET field == engine.fields[i]
          value == engine.values[field.identifier]
          accepted == field.identifier \notin DOMAIN engine.errors
      IN (/\ field.type \in {"percentage_number", "currency_number"}
          /\ field.identifier \in engine.visibleFields) =>
           IF value.t = "number"
             THEN accepted <=>
                    /\ value.n >= 0
                    /\ field.type = "percentage_number" => value.n <= 100
             ELSE field.is_required => ~accepted

\* C37 witness: an optional percentage_number field, visible, with 100 is
\* accepted.
C37_Witness ==
  /\ engine.op = "validateAllFields"
  /\ \E i \in DOMAIN engine.fields :
       /\ engine.fields[i].type = "percentage_number"
       /\ ~engine.fields[i].is_required
       /\ engine.fields[i].identifier \in engine.visibleFields
       /\ engine.values[engine.fields[i].identifier] = JsNumber(100)
       /\ engine.fields[i].identifier \notin DOMAIN engine.errors

\* The ids of the rows a retry batch holds: the one in hand and those to come.
Held(r) == { snap.id : snap \in r.batch } \cup ({r.cur.id} \ {0})

C38_RetryAccounting ==
  [][\A i \in Rows :
       /\ submissions'[i].retryCount >= submissions[i].retryCount
       /\ \A p \in Passes :
            (pass[p].pc = "catch" /\ pass[p].cur.id = i /\ pass'[p] # pass[p])
              => submissions'[i].retryCount = submissions[i].retryCount + 1
    ]_vars

\* C39: a row that is SUBMITTED has every file of its submit request attached
\* to its work request.  Only the submit handler uploads files, after it has
\* created the work request: a request whose attempt went on to an upload
\* carried a file, and its row is SUBMITTED only by that handler having ended
\* all its uploads.
C39_FilesAttached ==
  \A s \in Requests :
    (/\ sreq[s].sub \in Rows
     /\ submissions[sreq[s].sub].status = "SUBMITTED"
     /\ sreq[s].calls > CREATE_CALL)
      => sreq[s].resp = Received

\* The key has an entry whose window is still open at the clock reading.
Live(requests, k, at) == requests[k] # NoEntry /\ at < requests[k].resetTime

C40_BucketBounds ==
  /\ bucket.tokens >= 0
  /\ bucket.tokens <= 5
  /\ \A k \in Intervals : bucket.resolved[k] <= 5

====
